---- MODULE Spec2Model ----
(***************************************************************************)
(* Integrity-validation pipeline of the quantum-games API: the proctored-  *)
(* session state machine (services/proctoring.py) and the level-completion *)
(* submission pipeline (routers/progress.py) with its anti-cheat gates     *)
(* (services/anticheat.py).                                                *)
(*                                                                         *)
(* The database is the state.  A request handler works on ORM objects it   *)
(* has loaded; only what it commits reaches the database, and whatever a   *)
(* handler leaves uncommitted when it returns is dropped with the          *)
(* request's AsyncSession (Depends(get_db) gives every request its own).   *)
(***************************************************************************)
EXTENDS Integers, Sequences, FiniteSets, TLC

VARIABLES
    now,        \* wall clock, in ticks (datetime.utcnow())
    sessions,   \* table proctored_sessions: session_token -> row
    progress,   \* table progress: sequence of rows (no unique key on user, level)
    total_xp,   \* users.total_xp
    reqs,       \* in-flight requests of the interleaved specifications
    result      \* what the last handler call returned

vars == << now, sessions, progress, total_xp, reqs, result >>

----------------------------------------------------------------------------
(* Bounds of the model *)

MaxTime == 3            \* the clock is followed up to this tick
TicksPerMinute == 1     \* clock resolution: ticks in one minute
MaxFlags == 2           \* flag lists are followed up to this length (lifecycle)
MaxIntegrityFlags == 4  \* flag lists are followed up to this length (integrity score)
MaxSubmissions == 2     \* accepted submissions followed per behaviour
MaxEstimate == 3        \* estimated_minutes of the levels given to validate_completion_time
MaxDifficulty == 3      \* difficulty of the levels given to validate_completion_time
MaxSeconds == 25        \* time_seconds given to validate_completion_time
MaxMaxScore == 20       \* max_score given to validate_score_bounds
MaxQueries == 3         \* queries of the solutions given to the Deutsch-Jozsa scorer
MaxIterations == 6      \* iterations of the solutions given to the Grover scorer
MaxGates == 5           \* gates of the solutions given to the gate-puzzle scorer
MaxCircuitSubmissions == 3  \* accepted submissions followed for the circuit levels
MaxOthers == 3          \* other users with a stored row in the diversity check
MaxCalls == 2           \* calls made on each seed generator
MaxSeed == 60           \* seeds of the generators given to generate_gate_puzzle_challenge

None == "none"          \* Python None for string-valued fields
Null == {}              \* Python None for integer-valued fields: {} or {v}

Some(v) == {v}

Max2(a, b) == IF a >= b THEN a ELSE b

Min2(a, b) == IF a <= b THEN a ELSE b

----------------------------------------------------------------------------
(* Proctored sessions: models/proctoring.py, services/proctoring.py *)

Users == {"u1", "u2"}

Tokens == {"tok1"}

TokenInputs == Tokens \cup {"bogus"}

Code == "CODE"

CodeInputs == {Code, "WRONG"}

ProctoringStatus == {"pending", "verified", "active", "completed", "flagged", "invalidated"}

Severities == {"info", "warning", "critical"}

Flag(type, severity) == [type |-> type, severity |-> severity]

BrowserInfo(fp, ua, ip) == [fingerprint |-> fp, user_agent |-> ua, ip_address |-> ip]

\* _add_flag: appends to the loaded session object's flags array
_add_flag(session, flag_type, severity) ==
    [session EXCEPT !.flags = Append(@, Flag(flag_type, severity))]

CountSeverity(flags, sev) ==
    Cardinality({i \in 1..Len(flags) : flags[i].severity = sev})

_calculate_integrity_score_NoFloor(flags) ==
    100 - 30 * CountSeverity(flags, "critical")
        - 10 * CountSeverity(flags, "warning")
        - 2 * CountSeverity(flags, "info")

_calculate_integrity_score(flags) ==
    IF Len(flags) = 0 THEN 100
    ELSE Max2(0, 100 - 30 * CountSeverity(flags, "critical")
                     - 10 * CountSeverity(flags, "warning")
                     - 2 * CountSeverity(flags, "info"))

\* timedelta(minutes=max_duration_minutes), in ticks
MaxDuration(session) == session.max_duration_minutes * TicksPerMinute

TimeLimitExceeded_AtLimit(session, t) == (t - session.started_at) >= MaxDuration(session)

\* elapsed > max_duration
TimeLimitExceeded(session, t) == (t - session.started_at) > MaxDuration(session)

Lookup(token) == IF token \in DOMAIN sessions THEN Some(sessions[token]) ELSE Null

\* what a call returned; user, level and score are filled by complete_level
\* (score: the verified score of an accepted submission)
Ret(op, token, ok, error) ==
    [op |-> op, ok |-> ok, error |-> error, user |-> None, level |-> None, score |-> 0]

\* db.commit() of a loaded, modified session object
CommitSession(token, session) == sessions' = [sessions EXCEPT ![token] = session]

NewSession(user, level, max_duration_minutes, bi, t) ==
    [user_id |-> user, level_id |-> level, status |-> "pending",
     verification_code |-> Code,
     max_duration_minutes |-> max_duration_minutes,
     browser_fingerprint |-> bi.fingerprint,
     user_agent |-> bi.user_agent,
     ip_address |-> bi.ip_address,
     started_at |-> t, verified_at |-> Null, ended_at |-> Null,
     flags |-> << >>, integrity_score |-> Null, proctor_notes |-> None]

create_proctored_session(token, user, level, max_duration_minutes, bi) ==
    /\ token \in Tokens
    /\ token \notin DOMAIN sessions
    /\ sessions' = sessions @@ (token :> NewSession(user, level, max_duration_minutes, bi, now))
    /\ result' = Ret("create", token, TRUE, None)
    /\ UNCHANGED << now, progress, total_xp, reqs >>

CanVerify_AnyStatus(session) == session.status \in {"pending", "verified", "active"}

CanVerify(session) == session.status = "pending"

\* the fingerprint check of verify_session, on the loaded object
VerifyFingerprint(session, bi) ==
    IF /\ session.browser_fingerprint # None
       /\ bi.fingerprint # None
       /\ bi.fingerprint # session.browser_fingerprint
    THEN _add_flag(session, "BROWSER_FINGERPRINT_MISMATCH", "warning")
    ELSE session

verify_session(token, code, bi) ==
    /\ UNCHANGED << now, progress, total_xp, reqs >>
    /\ IF token \notin DOMAIN sessions
       THEN /\ result' = Ret("verify", token, FALSE, "Invalid session token")
            /\ UNCHANGED sessions
       ELSE LET session == sessions[token] IN
            IF ~CanVerify(session)
            THEN /\ result' = Ret("verify", token, FALSE, "Session is not pending")
                 /\ UNCHANGED sessions
            ELSE IF session.verification_code # code
            THEN \* _add_flag on the loaded object, then return: no db.commit()
                 LET flagged == _add_flag(session, "INVALID_VERIFICATION_CODE", "warning") IN
                 /\ flagged.flags # session.flags
                 /\ result' = Ret("verify", token, FALSE, "Invalid verification code")
                 /\ UNCHANGED sessions
            ELSE LET checked == VerifyFingerprint(session, bi) IN
                 /\ CommitSession(token, [checked EXCEPT !.status = "verified",
                                                         !.verified_at = Some(now),
                                                         !.user_agent = bi.user_agent,
                                                         !.ip_address = bi.ip_address])
                 /\ result' = Ret("verify", token, TRUE, None)

CanStart_Unverified(session) == session.status \in {"pending", "verified"}

CanStart(session) == session.status = "verified"

StartedAt_Kept(session, t) == session.started_at

\* session.started_at = datetime.utcnow()
StartedAt(session, t) == t

\* The clock is read once per request.  A request served after a start reads a
\* strictly later value than the one the start stored: the start's reading is
\* followed by a tick.
start_session(token) ==
    /\ now < MaxTime
    /\ now' = now + 1
    /\ UNCHANGED << progress, total_xp, reqs >>
    /\ IF token \notin DOMAIN sessions
       THEN /\ result' = Ret("start", token, FALSE, "Invalid session token")
            /\ UNCHANGED sessions
       ELSE LET session == sessions[token] IN
            IF ~CanStart(session)
            THEN /\ result' = Ret("start", token, FALSE, "Session must be verified first")
                 /\ UNCHANGED sessions
            ELSE /\ CommitSession(token, [session EXCEPT !.status = "active",
                                                         !.started_at = StartedAt(session, now)])
                 /\ result' = Ret("start", token, TRUE, None)

\* the IP and user-agent consistency checks of validate_active_session
CheckIp_Strict(session, bi) ==
    IF session.ip_address # bi.ip_address
    THEN _add_flag(session, "IP_ADDRESS_CHANGED", "warning")
    ELSE session

CheckIp(session, bi) ==
    IF /\ session.ip_address # None
       /\ bi.ip_address # None
       /\ session.ip_address # bi.ip_address
    THEN _add_flag(session, "IP_ADDRESS_CHANGED", "warning")
    ELSE session

CheckUserAgent(session, bi) ==
    IF /\ session.user_agent # None
       /\ bi.user_agent # None
       /\ session.user_agent # bi.user_agent
    THEN _add_flag(session, "USER_AGENT_CHANGED", "warning")
    ELSE session

ValidateOutcome_Flagged(session, bi, t) ==
    IF session.status \notin {"active", "flagged"}
    THEN [ok |-> FALSE, error |-> "Session is not active", commit |-> Null]
    ELSE [ok |-> TRUE, error |-> None,
          commit |-> Some(CheckUserAgent(CheckIp(session, bi), bi))]

\* validate_active_session on a loaded session, at clock reading t:
\* what it returns and the object it commits (Null: nothing is committed)
ValidateOutcome(session, bi, t) ==
    IF session.status # "active"
    THEN [ok |-> FALSE, error |-> "Session is not active", commit |-> Null]
    ELSE IF TimeLimitExceeded(session, t)
    THEN [ok |-> FALSE, error |-> "Session time limit exceeded",
          commit |-> Some(_add_flag([session EXCEPT !.status = "invalidated"],
                                    "TIME_LIMIT_EXCEEDED", "critical"))]
    ELSE [ok |-> TRUE, error |-> None,
          commit |-> Some(CheckUserAgent(CheckIp(session, bi), bi))]

TheOne(S) == CHOOSE x \in S : TRUE

validate_active_session(token, bi) ==
    /\ UNCHANGED << now, progress, total_xp, reqs >>
    /\ IF token \notin DOMAIN sessions
       THEN /\ result' = Ret("validate", token, FALSE, "Invalid session token")
            /\ UNCHANGED sessions
       ELSE LET out == ValidateOutcome(sessions[token], bi, now) IN
            /\ result' = Ret("validate", token, out.ok, out.error)
            /\ IF out.commit = Null
               THEN UNCHANGED sessions
               ELSE CommitSession(token, TheOne(out.commit))

CanComplete_AnyStarted(session) == session.status \in {"active", "flagged", "invalidated"}

CanComplete(session) == session.status \in {"active", "flagged"}

Completed(session, notes, t) ==
    [session EXCEPT !.status = "completed",
                    !.ended_at = Some(t),
                    !.integrity_score = Some(_calculate_integrity_score(session.flags)),
                    !.proctor_notes = notes]

complete_session(token, notes) ==
    /\ UNCHANGED << now, progress, total_xp, reqs >>
    /\ IF token \notin DOMAIN sessions
       THEN /\ result' = Ret("complete", token, FALSE, "Invalid session token")
            /\ UNCHANGED sessions
       ELSE LET session == sessions[token] IN
            IF ~CanComplete(session)
            THEN /\ result' = Ret("complete", token, FALSE, "Cannot complete session")
                 /\ UNCHANGED sessions
            ELSE /\ CommitSession(token, Completed(session, notes, now))
                 /\ result' = Ret("complete", token, TRUE, None)

FlagStatus_Always(session, severity) ==
    IF severity = "critical" THEN "flagged" ELSE session.status

\* if severity == "critical" and session.status == ACTIVE: status = FLAGGED
FlagStatus(session, severity) ==
    IF severity = "critical" /\ session.status = "active" THEN "flagged" ELSE session.status

flag_session(token, flag_type, severity) ==
    /\ UNCHANGED << now, progress, total_xp, reqs >>
    /\ IF token \notin DOMAIN sessions
       THEN /\ result' = Ret("flag", token, FALSE, "Session not found")
            /\ UNCHANGED sessions
       ELSE LET session == sessions[token] IN
            /\ CommitSession(token, [_add_flag(session, flag_type, severity)
                                        EXCEPT !.status = FlagStatus(session, severity)])
            /\ result' = Ret("flag", token, TRUE, None)

\* time passes with no request
Tick ==
    /\ now < MaxTime
    /\ now' = now + 1
    /\ UNCHANGED << sessions, progress, total_xp, reqs, result >>

----------------------------------------------------------------------------
(* The session views of routers/proctoring.py *)

SessionResponse_Disclosing(endpoint, session) ==
    [status |-> session.status, verification_code |-> Some(session.verification_code),
     integrity_score |-> session.integrity_score, flags |-> session.flags]

\* SessionResponse as each endpoint builds it: create passes the code on, verify,
\* start and my-sessions pass None, get passes it for a PENDING session only
SessionResponse(endpoint, session) ==
    [status |-> session.status,
     verification_code |->
        IF endpoint = "create" THEN Some(session.verification_code)
        ELSE IF endpoint = "get" /\ session.status = "pending"
        THEN Some(session.verification_code)
        ELSE Null,
     integrity_score |-> session.integrity_score, flags |-> session.flags]

\* GET /sessions/{session_token}: 404 for an unknown token
get_proctored_session(token) ==
    /\ result' = Ret("get", token, token \in DOMAIN sessions,
                     IF token \in DOMAIN sessions THEN None ELSE "Session not found")
    /\ UNCHANGED << now, sessions, progress, total_xp, reqs >>

\* GET /my-sessions: the views of the user's sessions
get_my_sessions(user) ==
    /\ result' = [Ret("my-sessions", None, TRUE, None) EXCEPT !.user = user]
    /\ UNCHANGED << now, sessions, progress, total_xp, reqs >>

----------------------------------------------------------------------------
(* Challenge seeds: services/challenge_seeds.py. The clock counts calendar   *)
(* days here; strings are hashed by their position in a fixed list and the   *)
(* 64-bit seed and the Mersenne twister are scaled down to 16 bits.          *)

\* sha256(seed_string).digest()[:8] as an integer, over the components' codes
RECURSIVE sha256(_, _)
sha256(components, h) ==
    IF components = << >> THEN h
    ELSE sha256(Tail(components), (h * 31 + Head(components)) % 65536)

_compute_seed_Attempt(user_id, level_id, seed_rotation, today) ==
    LET code(x) == CHOOSE i \in 1..4 : << "u1", "u2", "A1", "A2" >>[i] = x
    IN  sha256(<< code(user_id), code(level_id), 10 + today >>, 7)

\* _compute_seed for the rotations "static" and "daily": the user, the level
\* and, for "daily", date.today()
_compute_seed(user_id, level_id, seed_rotation, today) ==
    LET code(x) == CHOOSE i \in 1..4 : << "u1", "u2", "A1", "A2" >>[i] = x
        components == << code(user_id), code(level_id) >>
                      \o (IF seed_rotation = "daily" THEN << 10 + today >> ELSE << >>)
    IN  sha256(components, 7)

\* ChallengeSeedGenerator(user_id, level_id, seed_rotation), constructed on day today
ChallengeSeedGenerator(user_id, level_id, seed_rotation, today) ==
    LET seed == _compute_seed(user_id, level_id, seed_rotation, today) IN
    [user_id |-> user_id, level_id |-> level_id, seed_rotation |-> seed_rotation,
     seed |-> seed, rng |-> seed]

\* one step of random.Random: the next state of the generator's _rng
Advance(rng) == (rng * 75 + 74) % 65537

\* k draws without replacement from options: the values and the _rng left
RECURSIVE Draw(_, _, _)
Draw(rng, options, k) ==
    IF k = 0 \/ options = << >> THEN [value |-> << >>, rng |-> rng]
    ELSE LET next == Advance(rng)
             i == 1 + (next % Len(options))
             rest == Draw(next, SubSeq(options, 1, i - 1) \o SubSeq(options, i + 1, Len(options)),
                          k - 1)
         IN  [value |-> << options[i] >> \o rest.value, rng |-> rest.rng]

\* the methods return the value and leave the generator with its _rng advanced
random_int(generator, min_val, max_val) ==
    LET next == Advance(generator.rng) IN
    [value |-> min_val + (next % (max_val - min_val + 1)),
     generator |-> [generator EXCEPT !.rng = next]]

random_choice(generator, options) ==
    LET next == Advance(generator.rng) IN
    [value |-> options[1 + (next % Len(options))],
     generator |-> [generator EXCEPT !.rng = next]]

random_sample(generator, options, k) ==
    LET out == Draw(generator.rng, options, Min2(k, Len(options))) IN
    [value |-> out.value, generator |-> [generator EXCEPT !.rng = out.rng]]

shuffle(generator, items) ==
    LET out == Draw(generator.rng, items, Len(items)) IN
    [value |-> out.value, generator |-> [generator EXCEPT !.rng = out.rng]]

----------------------------------------------------------------------------
(* Games, levels and the anti-cheat gates: models/game.py, services/anticheat.py *)

tier_order == << "basic_school", "junior_high", "senior_high",
                 "undergraduate", "postgraduate", "researcher" >>

Games == {"gA", "gB", "circuit-architect"}

\* games.config and games.target_level; gB's prerequisite_games also lists
\* gX, a slug no row of the games table carries
Game(g) ==
    CASE g = "gA" ->
           [slug |-> "gA", target_level |-> "basic_school", prerequisite_games |-> {},
            verification_type |-> "algorithm", server_side_scoring |-> FALSE]
      [] g = "gB" ->
           [slug |-> "gB", target_level |-> "junior_high", prerequisite_games |-> {"gA", "gX"},
            verification_type |-> "algorithm", server_side_scoring |-> FALSE]
      [] OTHER ->
           [slug |-> "circuit-architect", target_level |-> "basic_school",
            prerequisite_games |-> {},
            verification_type |-> "circuit", server_side_scoring |-> TRUE]

Levels == {"A1", "A2", "B1", "Q1", "Q2"}

\* levels: sequence is unique and contiguous from 1 within a game; Q1 asks for
\* circuit verification, Q2 leaves requires_circuit_verification at its default
Level(l) ==
    CASE l = "A1" -> [id |-> "A1", game_id |-> "gA", sequence |-> 1, difficulty |-> 1,
                      estimated_minutes |-> 10, xp_reward |-> 10, max_score |-> 100,
                      algorithm |-> "deutsch_jozsa", oracle_type |-> "balanced",
                      requires_proctoring |-> FALSE,
                      check_solution_diversity |-> TRUE, strict_diversity |-> TRUE]
      [] l = "A2" -> [id |-> "A2", game_id |-> "gA", sequence |-> 2, difficulty |-> 2,
                      estimated_minutes |-> 10, xp_reward |-> 20, max_score |-> 100,
                      algorithm |-> "deutsch_jozsa", oracle_type |-> "balanced",
                      requires_proctoring |-> TRUE,
                      check_solution_diversity |-> TRUE, strict_diversity |-> FALSE]
      [] l = "B1" -> [id |-> "B1", game_id |-> "gB", sequence |-> 1, difficulty |-> 1,
                      estimated_minutes |-> 10, xp_reward |-> 30, max_score |-> 100,
                      algorithm |-> "deutsch_jozsa", oracle_type |-> "balanced",
                      requires_proctoring |-> FALSE,
                      check_solution_diversity |-> FALSE, strict_diversity |-> FALSE]
      [] l = "Q1" -> [id |-> "Q1", game_id |-> "circuit-architect", sequence |-> 1,
                      difficulty |-> 1, estimated_minutes |-> 10, xp_reward |-> 10,
                      max_score |-> 100, target_state |-> "one",
                      requires_circuit_verification |-> TRUE, optimal_gate_count |-> 1,
                      requires_proctoring |-> FALSE,
                      check_solution_diversity |-> FALSE, strict_diversity |-> FALSE]
      [] OTHER    -> [id |-> "Q2", game_id |-> "circuit-architect", sequence |-> 2,
                      difficulty |-> 1, estimated_minutes |-> 10, xp_reward |-> 10,
                      max_score |-> 100, target_state |-> "one",
                      requires_circuit_verification |-> FALSE, optimal_gate_count |-> 1,
                      requires_proctoring |-> FALSE,
                      check_solution_diversity |-> FALSE, strict_diversity |-> FALSE]

MIN_TIME_FRACTION_PERCENT == 10

ABSOLUTE_MIN_SECONDS == 5

\* min_time of validate_completion_time, in seconds: int() truncates; on the
\* levels followed here the floating-point products are the exact ones
MinTime(level) ==
    (Max2(ABSOLUTE_MIN_SECONDS,
          (level.estimated_minutes * 60 * MIN_TIME_FRACTION_PERCENT) \div 100)
       * (100 + 5 * (level.difficulty - 1))) \div 100

validate_completion_time(level, time_seconds) ==
    IF time_seconds = Null THEN TRUE
    ELSE ~(TheOne(time_seconds) < MinTime(level))

validate_score_bounds_Strict(score, max_score) ==
    IF score < 0 THEN FALSE
    ELSE ~(score * 10 >= max_score * 11)

\* score > effective_max * 1.1, with effective_max the level's max_score:
\* score * 10 > effective_max * 11
validate_score_bounds(score, max_score) ==
    IF score < 0 THEN FALSE
    ELSE ~(score * 10 > max_score * 11)

\* SELECT Progress JOIN Level WHERE user_id, Level.game_id, completed
CompletedInGame(table, user, g) ==
    {i \in 1..Len(table) : /\ table[i].user_id = user
                           /\ Level(table[i].level_id).game_id = g
                           /\ table[i].completed}

\* SELECT Progress WHERE user_id, level_id, completed
CompletedLevel(table, user, l) ==
    {i \in 1..Len(table) : /\ table[i].user_id = user
                           /\ table[i].level_id = l
                           /\ table[i].completed}

LevelsAt(g, seq) == {l \in Levels : Level(l).game_id = g /\ Level(l).sequence = seq}

MissingGames(table, user, game) ==
    {slug \in game.prerequisite_games :
        slug \in Games /\ CompletedInGame(table, user, slug) = {}}

PreviousMissing_Any(table, user, game, level) ==
    IF level.sequence > 1
    THEN {l \in LevelsAt(game.slug, level.sequence - 1) :
             \A i \in 1..Len(table) : ~(table[i].user_id = user /\ table[i].level_id = l)}
    ELSE {}

\* the level-chain part of check_prerequisites: the previous level when the
\* user has no completed progress row for it
PreviousMissing(table, user, game, level) ==
    IF level.sequence > 1
    THEN {l \in LevelsAt(game.slug, level.sequence - 1) :
             CompletedLevel(table, user, l) = {}}
    ELSE {}

\* scalar_one_or_none() raises MultipleResultsFound on more than one row
PrerequisitesRaise(table, user, game, level) ==
    \/ \E slug \in game.prerequisite_games :
          slug \in Games /\ Cardinality(CompletedInGame(table, user, slug)) > 1
    \/ /\ level.sequence > 1
       /\ \/ Cardinality(LevelsAt(game.slug, level.sequence - 1)) > 1
          \/ \E l \in LevelsAt(game.slug, level.sequence - 1) :
                Cardinality(CompletedLevel(table, user, l)) > 1

check_prerequisites_GamesOnly(table, user, game, level) ==
    LET missing == [games |-> MissingGames(table, user, game), levels |-> {}] IN
    [raised |-> PrerequisitesRaise(table, user, game, level),
     ok |-> missing.games = {},
     missing |-> missing]

check_prerequisites(table, user, game, level) ==
    LET missing == [games |-> MissingGames(table, user, game),
                    levels |-> PreviousMissing(table, user, game, level)] IN
    [raised |-> PrerequisitesRaise(table, user, game, level),
     ok |-> missing.games = {} /\ missing.levels = {},
     missing |-> missing]

TierIndex(tier) == CHOOSE i \in 1..Len(tier_order) : tier_order[i] = tier

MasteryCount_AnyStars(table, user, prev_tier, min_stars) ==
    Cardinality({g \in Games :
        /\ Game(g).target_level = prev_tier
        /\ \E i \in 1..Len(table) : /\ table[i].user_id = user
                                    /\ table[i].stars >= 1
                                    /\ Level(table[i].level_id).game_id = g})

\* count(distinct Level.game_id) over the user's rows with stars >= min_stars
\* in games of the previous tier
MasteryCount(table, user, prev_tier, min_stars) ==
    Cardinality({g \in Games :
        /\ Game(g).target_level = prev_tier
        /\ \E i \in 1..Len(table) : /\ table[i].user_id = user
                                    /\ table[i].stars >= min_stars
                                    /\ Level(table[i].level_id).game_id = g})

check_education_tier_mastery(table, user, target_level, min_stars, min_games_completed) ==
    IF TierIndex(target_level) = 1 THEN TRUE
    ELSE ~(MasteryCount(table, user, tier_order[TierIndex(target_level) - 1], min_stars)
              < min_games_completed)

\* solutions of the Deutsch-Jozsa levels
Solution(answer, queries) == [answer |-> answer, queries |-> queries]

\* _verify_deutsch_solution
_verify_deutsch_solution(level, solution) ==
    IF solution.answer # level.oracle_type
    THEN [valid |-> FALSE, error |-> "Incorrect answer", score |-> 0]
    ELSE IF solution.queries = 1 THEN [valid |-> TRUE, error |-> None, score |-> 100]
    ELSE [valid |-> TRUE, error |-> None,
          score |-> Max2(50, 100 - (solution.queries - 1) * 20)]

\* the single-qubit state symbols and gates of the gate puzzle
Kets == {"|0>", "|1>", "|+>", "|->"}

PuzzleGates == {"X", "Y", "Z", "H"}

\* the transitions table; a state or gate outside it leaves the state as it is
transitions(state, gate) ==
    IF state \notin Kets \/ gate \notin PuzzleGates THEN state
    ELSE CASE state = "|0>" ->
                (CASE gate = "X" -> "|1>" [] gate = "Y" -> "|1>"
                   [] gate = "Z" -> "|0>" [] OTHER -> "|+>")
           [] state = "|1>" ->
                (CASE gate = "X" -> "|0>" [] gate = "Y" -> "|0>"
                   [] gate = "Z" -> "|1>" [] OTHER -> "|->")
           [] state = "|+>" ->
                (CASE gate = "X" -> "|+>" [] gate = "Y" -> "|->"
                   [] gate = "Z" -> "|->" [] OTHER -> "|0>")
           [] OTHER ->
                (CASE gate = "X" -> "|->" [] gate = "Y" -> "|+>"
                   [] gate = "Z" -> "|+>" [] OTHER -> "|1>")

\* for gate in gates_applied: current_state = transitions[current_state][gate]
RECURSIVE Replay(_, _)
Replay(state, gates) ==
    IF gates = << >> THEN state
    ELSE Replay(transitions(state, Head(gates)), Tail(gates))

\* verify_gate_puzzle_solution
verify_gate_puzzle_solution(level, solution) ==
    IF ~level.requires_gate_verification \/ level.target_state_symbol = None
    THEN [valid |-> TRUE, error |-> None, score |-> Null]
    ELSE IF Replay(level.initial_state, solution.gates) # level.target_state_symbol
    THEN [valid |-> FALSE, error |-> "Gate sequence verification failed", score |-> {0}]
    ELSE [valid |-> TRUE, error |-> None,
          score |-> {IF Len(solution.gates) <= level.optimal_gate_count THEN 100
                     ELSE Max2(50, 100 - (Len(solution.gates) - level.optimal_gate_count) * 10)}]

\* QuantumSimulator.verify_circuit on one qubit: _apply_gate raises on a gate
\* name it does not know; otherwise the measured distribution of the final
\* state is compared with the target (sampling noise within the tolerance)
verify_circuit(operations, target_state) ==
    IF \E i \in 1..Len(operations) : operations[i] \notin PuzzleGates
    THEN [raised |-> TRUE, matches |-> FALSE]
    ELSE LET final == Replay("|0>", operations)
             actual == IF final = "|0>" THEN "zero" ELSE IF final = "|1>" THEN "one" ELSE "half"
         IN  [raised |-> FALSE, matches |-> actual = target_state]

\* verify_circuit_solution: a matching circuit scores 100
verify_circuit_solution(level, solution) ==
    IF ~level.requires_circuit_verification \/ level.target_state = None
    THEN [valid |-> TRUE, error |-> None, score |-> Null]
    ELSE IF solution.circuit = Null
    THEN [valid |-> FALSE, error |-> "Solution must contain circuit data", score |-> Null]
    ELSE LET circuit == TheOne(solution.circuit) IN
         IF circuit.num_qubits = 0 \/ circuit.num_qubits > 20
         THEN [valid |-> FALSE, error |-> "Invalid circuit configuration", score |-> Null]
         ELSE LET out == verify_circuit(circuit.operations, level.target_state) IN
              IF out.raised
              THEN [valid |-> FALSE, error |-> "Circuit verification error", score |-> Null]
              ELSE IF ~out.matches
              THEN [valid |-> FALSE, error |-> "Circuit verification failed", score |-> {0}]
              ELSE [valid |-> TRUE, error |-> None, score |-> {100}]

\* int(score) if score else claimed_score
ScoreOr(score, claimed_score) ==
    IF score = Null \/ score = {0} THEN claimed_score ELSE TheOne(score)

\* _verify_grover_solution
_verify_grover_solution(level, solution) ==
    IF solution.found_item \notin level.marked_items
    THEN [valid |-> FALSE, error |-> "Found item is not in the marked set", score |-> 0]
    ELSE IF solution.iterations <= level.optimal_iterations
    THEN [valid |-> TRUE, error |-> None, score |-> 100]
    ELSE [valid |-> TRUE, error |-> None,
          score |-> Max2(50, 100 - (solution.iterations - level.optimal_iterations) * 15)]

verify_solution(game, level, solution, claimed_score) ==
    CASE game.verification_type = "circuit" ->
           LET out == verify_circuit_solution(level, solution) IN
           IF ~out.valid THEN [valid |-> FALSE, error |-> out.error, score |-> 0]
           ELSE [valid |-> TRUE, error |-> None, score |-> ScoreOr(out.score, claimed_score)]
      [] game.verification_type = "gate_puzzle" ->
           LET out == verify_gate_puzzle_solution(level, solution) IN
           IF ~out.valid THEN [valid |-> FALSE, error |-> out.error, score |-> 0]
           ELSE [valid |-> TRUE, error |-> None, score |-> ScoreOr(out.score, claimed_score)]
      [] game.verification_type = "algorithm" /\ level.algorithm = "grover" ->
           _verify_grover_solution(level, solution)
      [] game.verification_type = "algorithm" /\ level.algorithm = "deutsch_jozsa" ->
           _verify_deutsch_solution(level, solution)
      [] OTHER -> [valid |-> TRUE, error |-> None, score |-> claimed_score]

\* efficiency bonus of the scorers: full up to the optimal count, then less per
\* extra step, never below 0
Bonus(full, per_extra, count, optimal) ==
    IF count <= optimal THEN full ELSE Max2(0, full - (count - optimal) * per_extra)

\* _score_circuit_architect: a simulator exception is caught and scored 0
_score_circuit_architect(config, solution, max_score) ==
    IF solution.circuit = Null \/ config.target_state = None
    THEN [score |-> 0, correct |-> FALSE, error |-> "Missing circuit or target state"]
    ELSE LET operations == TheOne(solution.circuit).operations
             out == verify_circuit(operations, config.target_state) IN
         IF out.raised THEN [score |-> 0, correct |-> FALSE, error |-> "Unknown gate"]
         ELSE IF ~out.matches THEN [score |-> 0, correct |-> FALSE, error |-> None]
         ELSE [score |-> Min2(70 + Bonus(30, 5, Len(operations), config.optimal_gate_count),
                              max_score),
               correct |-> TRUE, error |-> None]

\* _score_grovers_maze
_score_grovers_maze(config, solution, max_score) ==
    IF solution.found_item = None \/ solution.found_item \notin config.marked_items
    THEN [score |-> 0, correct |-> FALSE, error |-> None]
    ELSE [score |-> Min2(60 + Bonus(40, 10, solution.iterations, config.optimal_iterations),
                         max_score),
          correct |-> TRUE, error |-> None]

\* _score_deutsch_challenge
_score_deutsch_challenge(config, solution, max_score) ==
    IF solution.answer # config.oracle_type
    THEN [score |-> 0, correct |-> FALSE, error |-> None]
    ELSE IF solution.queries = 1
    THEN [score |-> max_score, correct |-> TRUE, error |-> None]
    ELSE [score |-> Max2(60 - (solution.queries - 1) * 15, 40),
          correct |-> TRUE, error |-> None]

_score_gate_puzzle_Trusting(config, solution, max_score) ==
    IF solution.final_state # config.target_state_symbol
    THEN [score |-> 0, correct |-> FALSE, error |-> None]
    ELSE [score |-> Min2(60 + Bonus(40, 10, Len(solution.gates), config.optimal_gate_count),
                         max_score),
          correct |-> TRUE, error |-> None]

\* _score_gate_puzzle
_score_gate_puzzle(config, solution, max_score) ==
    IF Replay(config.initial_state, solution.gates) # config.target_state_symbol
    THEN [score |-> 0, correct |-> FALSE, error |-> None]
    ELSE [score |-> Min2(60 + Bonus(40, 10, Len(solution.gates), config.optimal_gate_count),
                         max_score),
          correct |-> TRUE, error |-> None]

\* ServerSideScorer.calculate_score for the strategies followed here; any other
\* slug takes the solution's own "score" entry (absent: 0) clamped to
\* [0, max_score]
calculate_score(game, level, solution) ==
    CASE game.slug = "circuit-architect" -> _score_circuit_architect(level, solution, level.max_score)
      [] game.slug = "grovers-maze" -> _score_grovers_maze(level, solution, level.max_score)
      [] game.slug = "deutsch-challenge" -> _score_deutsch_challenge(level, solution, level.max_score)
      [] game.slug = "gate-puzzle" -> _score_gate_puzzle(level, solution, level.max_score)
      [] OTHER ->
           LET reported_score == IF "score" \in DOMAIN solution THEN solution.score ELSE 0 IN
           [score |-> Min2(Max2(0, reported_score), level.max_score),
            correct |-> TRUE, error |-> None]

optimal_gates_One(initial_state, target_state) == 1

\* the table of generate_gate_puzzle_challenge: the gates of an optimal solution
optimal_gates(initial_state, target_state) ==
    IF << initial_state, target_state >>
          \in {<< "|0>", "|->" >>, << "|1>", "|+>" >>, << "|+>", "|1>" >>, << "|->", "|0>" >>}
    THEN 2
    ELSE 1

\* generate_gate_puzzle_challenge: an initial state, then a target among the
\* other states; the generator is used up and not returned
generate_gate_puzzle_challenge(generator, base_config) ==
    LET states == << "|0>", "|1>", "|+>", "|->" >>
        first == random_choice(generator, states)
        initial_state == first.value
        other_states == SelectSeq(states, LAMBDA k : k # initial_state)
        target_state == random_choice(first.generator, other_states).value
    IN  [max_score |-> base_config.max_score,
         initial_state |-> initial_state,
         target_state_symbol |-> target_state,
         optimal_gate_count |-> optimal_gates(initial_state, target_state),
         seed |-> generator.seed]

\* _compute_solution_similarity, in percent, for solutions with an "answer"
_compute_solution_similarity(s1, s2) == IF s1.answer = s2.answer THEN 100 ELSE 50

OtherSolutions_WithOwn(table, user, level) ==
    {i \in 1..Len(table) : /\ table[i].level_id = level.id
                           /\ table[i].best_solution # Null}

\* the other users' rows for the level that carry a solution
OtherSolutions(table, user, level) ==
    {i \in 1..Len(table) : /\ table[i].level_id = level.id
                           /\ table[i].user_id # user
                           /\ table[i].best_solution # Null}

\* check_solution_diversity: compute_solution_hash is the hash of the
\* key-sorted JSON text, equal exactly for equal solutions
check_solution_diversity(table, user, level, solution) ==
    LET others == OtherSolutions(table, user, level)
        exact == {i \in others : TheOne(table[i].best_solution) = solution}
        similar == {i \in others \ exact :
                      _compute_solution_similarity(solution, TheOne(table[i].best_solution)) >= 95}
        exact_matches == Cardinality(exact)
        similar_count == Cardinality(similar)
    IN  IF exact_matches > 0
        THEN [is_unique |-> FALSE, warning |-> "exact_duplicate",
              exact_duplicates |-> exact_matches, similar_solutions |-> similar_count]
        ELSE IF similar_count > 2
        THEN [is_unique |-> FALSE, warning |-> "too_similar",
              exact_duplicates |-> exact_matches, similar_solutions |-> similar_count]
        ELSE [is_unique |-> TRUE, warning |-> None,
              exact_duplicates |-> exact_matches, similar_solutions |-> similar_count]

----------------------------------------------------------------------------
(* The submission pipeline: routers/progress.py, complete_level *)

Submission(score, time_seconds, solution, token, bi) ==
    [score |-> score, time_seconds |-> time_seconds, solution |-> solution,
     proctored_session_token |-> token, browser_info |-> bi]

\* Progress(user_id, level_id, max_score) with the column defaults
NewProgress(user, level) ==
    [user_id |-> user, level_id |-> level.id, score |-> 0, max_score |-> level.max_score,
     stars |-> 0, attempts |-> 0, best_time_seconds |-> Null, best_solution |-> Null,
     completed |-> FALSE, completed_at |-> Null]

\* the proctoring gate: the rejection code (None: passed), the session object
\* validate_active_session commits (Null: none) and the validated session
ProctoringGate(sess, level, sub, t) ==
    IF ~level.requires_proctoring
    THEN [code |-> None, commit |-> Null, proctored_session |-> Null]
    ELSE IF sub.proctored_session_token = None
    THEN [code |-> "PROCTORING_REQUIRED", commit |-> Null, proctored_session |-> Null]
    ELSE IF sub.proctored_session_token \notin DOMAIN sess
    THEN [code |-> "INVALID_PROCTORED_SESSION", commit |-> Null, proctored_session |-> Null]
    ELSE LET out == ValidateOutcome(sess[sub.proctored_session_token], sub.browser_info, t) IN
         [code |-> IF out.ok THEN None ELSE "INVALID_PROCTORED_SESSION",
          commit |-> out.commit,
          proctored_session |-> IF out.ok THEN out.commit ELSE Null]

HasWarningFlag(session) ==
    \E i \in 1..Len(session.flags) : session.flags[i].severity = "warning"

\* 25% penalty for similar solutions: int(verified_score * 0.75)
Penalised(score) == (score * 3) \div 4

\* the anti-cheat gates #1..#7 on the progress table as the request reads it:
\* the rejection code (None: accepted), the verified score and whether a
\* validation warning was raised
AntiCheatGates(table, user, level, sub) ==
    LET game == Game(level.game_id)
        prereq == check_prerequisites(table, user, game, level)
        has_solution == sub.solution # Null
        verified == IF has_solution
                    THEN verify_solution(game, level, TheOne(sub.solution), sub.score)
                    ELSE [valid |-> TRUE, error |-> None, score |-> sub.score]
        scored == IF has_solution /\ game.server_side_scoring
                  THEN calculate_score(game, level, TheOne(sub.solution)).score
                  ELSE verified.score
        diverse == IF has_solution /\ level.check_solution_diversity
                   THEN check_solution_diversity(table, user, level, TheOne(sub.solution)).is_unique
                   ELSE TRUE
    IN  IF ~validate_completion_time(level, sub.time_seconds)
        THEN [code |-> "TIME_ANOMALY", score |-> 0, warned |-> FALSE]
        ELSE IF ~validate_score_bounds(sub.score, level.max_score)
        THEN [code |-> "INVALID_SCORE", score |-> 0, warned |-> FALSE]
        ELSE IF prereq.raised
        THEN [code |-> "MultipleResultsFound", score |-> 0, warned |-> FALSE]
        ELSE IF ~prereq.ok
        THEN [code |-> "PREREQUISITES_NOT_MET", score |-> 0, warned |-> FALSE]
        ELSE IF ~check_education_tier_mastery(table, user, game.target_level, 2, 1)
        THEN [code |-> "TIER_MASTERY_REQUIRED", score |-> 0, warned |-> FALSE]
        ELSE IF ~verified.valid
        THEN [code |-> "SOLUTION_VERIFICATION_FAILED", score |-> 0, warned |-> FALSE]
        ELSE IF ~diverse /\ level.strict_diversity
        THEN [code |-> "DUPLICATE_SOLUTION", score |-> 0, warned |-> FALSE]
        ELSE [code |-> None,
              score |-> IF diverse THEN scored ELSE Penalised(scored),
              warned |-> scored # sub.score \/ ~diverse]

\* SELECT Progress WHERE user_id, level_id
ProgressRows(table, user, l) ==
    {i \in 1..Len(table) : table[i].user_id = user /\ table[i].level_id = l}

BestScore_Last(row, verified_score) == verified_score

\* if verified_score > progress.score: progress.score = verified_score
BestScore(row, verified_score) ==
    IF verified_score > row.score THEN verified_score ELSE row.score

Stars(row) ==
    LET max_score == IF row.max_score # 0 THEN row.max_score ELSE 100 IN
    IF row.score * 10 >= max_score * 9 THEN 3
    ELSE IF row.score * 10 >= max_score * 7 THEN 2
    ELSE IF row.score * 10 >= max_score * 5 THEN 1
    ELSE row.stars

FirstCompletion_Always(row) == row.stars >= 1

\* if not progress.completed and progress.stars >= 1
FirstCompletion(row) == ~row.completed /\ row.stars >= 1

\* lines 387-411 on the loaded (or new) progress object
UpdateProgress(row, sub, verified_score, t) ==
    LET r1 == [row EXCEPT !.attempts = @ + 1]
        r2 == [r1 EXCEPT !.score = BestScore(row, verified_score),
                         !.best_solution = IF verified_score > row.score /\ sub.solution # Null
                                           THEN sub.solution ELSE @]
        r3 == [r2 EXCEPT !.best_time_seconds =
                  IF /\ sub.time_seconds # Null
                     /\ TheOne(sub.time_seconds) # 0
                     /\ \/ @ = Null
                        \/ TheOne(@) = 0
                        \/ TheOne(sub.time_seconds) < TheOne(@)
                  THEN sub.time_seconds ELSE @]
        r4 == [r3 EXCEPT !.stars = Stars(r3)]
    IN  IF FirstCompletion(r4)
        THEN [r4 EXCEPT !.completed = TRUE, !.completed_at = Some(t)]
        ELSE r4

SubmitRet(ok, code, user, l, score) ==
    [op |-> "submit", ok |-> ok, error |-> code, user |-> user, level |-> l, score |-> score]

AfterValidate_Completing(sess, token, gate) ==
    IF gate.commit = Null THEN sess
    ELSE IF gate.proctored_session = Null
    THEN [sess EXCEPT ![token] = TheOne(gate.commit)]
    ELSE [sess EXCEPT ![token] =
             Completed(TheOne(gate.commit), None, TheOne(gate.commit).started_at)]

\* the session table after validate_active_session's commit
AfterValidate(sess, token, gate) ==
    IF gate.commit = Null THEN sess ELSE [sess EXCEPT ![token] = TheOne(gate.commit)]

AfterComplete_Skipped(sess, token, notes, t) == sess

\* complete_session as complete_level calls it: its result is not looked at
AfterComplete(sess, token, notes, t) ==
    IF token \in DOMAIN sess /\ CanComplete(sess[token])
    THEN [sess EXCEPT ![token] = Completed(sess[token], notes, t)]
    ELSE sess

complete_level(user, l, sub) ==
    LET level == Level(l)
        token == sub.proctored_session_token
        gate  == ProctoringGate(sessions, level, sub, now)
        sess1 == AfterValidate(sessions, token, gate)
        warned0 == gate.proctored_session # Null /\ HasWarningFlag(TheOne(gate.proctored_session))
        gates == AntiCheatGates(progress, user, level, sub)
        rows  == ProgressRows(progress, user, l)
    IN
    /\ UNCHANGED << now, reqs >>
    /\ IF gate.code # None
       THEN /\ result' = SubmitRet(FALSE, gate.code, user, l, 0)
            /\ sessions' = sess1
            /\ UNCHANGED << progress, total_xp >>
       ELSE IF gates.code # None
       THEN /\ result' = SubmitRet(FALSE, gates.code, user, l, 0)
            /\ sessions' = sess1
            /\ UNCHANGED << progress, total_xp >>
       ELSE IF Cardinality(rows) > 1
       THEN /\ result' = SubmitRet(FALSE, "MultipleResultsFound", user, l, 0)
            /\ sessions' = sess1
            /\ UNCHANGED << progress, total_xp >>
       ELSE LET old == IF rows = {} THEN NewProgress(user, level) ELSE progress[TheOne(rows)]
                new == UpdateProgress(old, sub, gates.score, now)
                notes == IF warned0 \/ gates.warned THEN "warnings" ELSE None
            IN  /\ progress' = IF rows = {} THEN Append(progress, new)
                               ELSE [progress EXCEPT ![TheOne(rows)] = new]
                /\ total_xp' = IF new.completed /\ ~old.completed
                               THEN [total_xp EXCEPT ![user] = @ + level.xp_reward]
                               ELSE total_xp
                /\ sessions' = IF gate.proctored_session # Null /\ token # None
                               THEN AfterComplete(sess1, token, notes, now)
                               ELSE sess1
                /\ result' = SubmitRet(TRUE, None, user, l, gates.score)

----------------------------------------------------------------------------
(* Two requests on one session, interleaved: each request loads the session  *)
(* row with its own AsyncSession (SELECT), works on the loaded object and    *)
(* commits; the UPDATE a commit issues sets the attributes the request       *)
(* changed, on the row as it then is.                                        *)

Reqs == {"r1", "r2"}

\* a request between its SELECT and its commit: what it was called with and
\* what it has read (snap: the session row; row: the progress row and its
\* index; xp: the user's total_xp; score: the verified score)
Idle ==
    [pc |-> "idle", token |-> None, bi |-> BrowserInfo(None, None, None), snap |-> Null,
     user |-> None, level |-> None,
     sub |-> Submission(0, Null, Null, None, BrowserInfo(None, None, None)),
     row |-> Null, xp |-> 0, score |-> 0, warned |-> FALSE]

\* UPDATE proctored_sessions SET <changed attributes> WHERE id = :id
CommitChanges(token, loaded, modified) ==
    sessions' = [sessions EXCEPT ![token] =
                    [f \in DOMAIN modified |->
                        IF modified[f] # loaded[f] THEN modified[f] ELSE @[f]]]

validate_load(r, token, bi) ==
    /\ reqs[r].pc = "idle"
    /\ reqs' = [reqs EXCEPT ![r] = [Idle EXCEPT !.pc = "validate", !.token = token,
                                                !.bi = bi, !.snap = Lookup(token)]]
    /\ UNCHANGED << now, sessions, progress, total_xp, result >>

validate_commit(r) ==
    /\ reqs[r].pc = "validate"
    /\ reqs' = [reqs EXCEPT ![r] = Idle]
    /\ UNCHANGED << now, progress, total_xp >>
    /\ IF reqs[r].snap = Null
       THEN /\ result' = Ret("validate", reqs[r].token, FALSE, "Invalid session token")
            /\ UNCHANGED sessions
       ELSE LET session == TheOne(reqs[r].snap)
                out == ValidateOutcome(session, reqs[r].bi, now) IN
            /\ result' = Ret("validate", reqs[r].token, out.ok, out.error)
            /\ IF out.commit = Null
               THEN UNCHANGED sessions
               ELSE CommitChanges(reqs[r].token, session, TheOne(out.commit))

complete_load(r, token) ==
    /\ reqs[r].pc = "idle"
    /\ reqs' = [reqs EXCEPT ![r] = [Idle EXCEPT !.pc = "complete", !.token = token,
                                                !.snap = Lookup(token)]]
    /\ UNCHANGED << now, sessions, progress, total_xp, result >>

complete_commit(r, notes) ==
    /\ reqs[r].pc = "complete"
    /\ reqs' = [reqs EXCEPT ![r] = Idle]
    /\ UNCHANGED << now, progress, total_xp >>
    /\ IF reqs[r].snap = Null
       THEN /\ result' = Ret("complete", reqs[r].token, FALSE, "Invalid session token")
            /\ UNCHANGED sessions
       ELSE LET session == TheOne(reqs[r].snap) IN
            IF ~CanComplete(session)
            THEN /\ result' = Ret("complete", reqs[r].token, FALSE, "Cannot complete session")
                 /\ UNCHANGED sessions
            ELSE /\ CommitChanges(reqs[r].token, session, Completed(session, notes, now))
                 /\ result' = Ret("complete", reqs[r].token, TRUE, None)

\* UPDATE progress SET <changed attributes> WHERE id = :id
CommitRow(table, idx, loaded, modified) ==
    [table EXCEPT ![idx] =
        [f \in DOMAIN modified |-> IF modified[f] # loaded[f] THEN modified[f] ELSE @[f]]]

\* complete_level up to the SELECT of the progress row (lines 139-377): the
\* gates, with validate_active_session's commit; a rejection ends the request
submit_load(r, user, l, sub) ==
    LET level == Level(l)
        token == sub.proctored_session_token
        gate  == ProctoringGate(sessions, level, sub, now)
        gates == AntiCheatGates(progress, user, level, sub)
        rows  == ProgressRows(progress, user, l)
        code  == IF gate.code # None THEN gate.code
                 ELSE IF gates.code # None THEN gates.code
                 ELSE IF Cardinality(rows) > 1 THEN "MultipleResultsFound"
                 ELSE None
    IN
    /\ reqs[r].pc = "idle"
    /\ sessions' = AfterValidate(sessions, token, gate)
    /\ UNCHANGED << now, progress, total_xp >>
    /\ IF code # None
       THEN /\ result' = SubmitRet(FALSE, code, user, l, 0)
            /\ UNCHANGED reqs
       ELSE /\ reqs' = [reqs EXCEPT ![r] =
                  [Idle EXCEPT !.pc = "submit", !.user = user, !.level = l, !.sub = sub,
                               !.token = IF gate.proctored_session # Null THEN token ELSE None,
                               !.row = IF rows = {} THEN Null
                                       ELSE {[idx |-> TheOne(rows),
                                              rec |-> progress[TheOne(rows)]]},
                               !.xp = total_xp[user],
                               !.score = gates.score,
                               !.warned = gates.warned
                                  \/ (gate.proctored_session # Null
                                      /\ HasWarningFlag(TheOne(gate.proctored_session)))]]
            /\ UNCHANGED result

\* complete_level from the progress update to the end (lines 379-436): the
\* loaded (or new) object is updated and committed, then the session completed
submit_commit(r) ==
    LET req == reqs[r]
        level == Level(req.level)
        old == IF req.row = Null THEN NewProgress(req.user, level) ELSE TheOne(req.row).rec
        new == UpdateProgress(old, req.sub, req.score, now)
        notes == IF req.warned THEN "warnings" ELSE None
    IN
    /\ req.pc = "submit"
    /\ reqs' = [reqs EXCEPT ![r] = Idle]
    /\ UNCHANGED now
    /\ progress' = IF req.row = Null THEN Append(progress, new)
                   ELSE CommitRow(progress, TheOne(req.row).idx, old, new)
    /\ total_xp' = IF new.completed /\ ~old.completed
                   THEN [total_xp EXCEPT ![req.user] = req.xp + level.xp_reward]
                   ELSE total_xp
    /\ sessions' = IF req.token # None
                   THEN AfterComplete(sessions, req.token, notes, now)
                   ELSE sessions
    /\ result' = SubmitRet(TRUE, None, req.user, req.level, req.score)

----------------------------------------------------------------------------

Init ==
    /\ now = 0
    /\ sessions = << >>
    /\ progress = << >>
    /\ total_xp = [u \in Users |-> 0]
    /\ reqs = [r \in Reqs |-> Idle]
    /\ result = Ret("init", None, TRUE, None)

\* inputs of the session lifecycle
Durations == {0, 1}

\* flag lists are followed up to n entries
FlagsWithin(n) == \A t \in DOMAIN sessions : Len(sessions[t].flags) <= n

NextSession ==
    \/ \E t \in Tokens, d \in Durations :
           create_proctored_session(t, "u1", "A2", d, BrowserInfo("fpA", "uaA", "ipA"))
    \/ \E t \in TokenInputs, c \in CodeInputs, fp \in {"fpA", "fpB"} :
           verify_session(t, c, BrowserInfo(fp, "uaA", "ipA")) /\ FlagsWithin(MaxFlags)'
    \/ \E t \in TokenInputs : start_session(t)
    \/ \E t \in TokenInputs, ua \in {"uaA", "uaB"}, ip \in {"ipA", "ipB"} :
           validate_active_session(t, BrowserInfo(None, ua, ip)) /\ FlagsWithin(MaxFlags)'
    \/ \E t \in TokenInputs : complete_session(t, None)
    \/ \E t \in TokenInputs, sev \in Severities :
           flag_session(t, "TAB_SWITCH", sev) /\ FlagsWithin(MaxFlags)'
    \/ Tick

\* the session lifecycle, one call at a time
SpecSession == Init /\ [][NextSession]_vars

NextIntegrity ==
    \/ \E t \in Tokens, d \in Durations :
           create_proctored_session(t, "u1", "A2", d, BrowserInfo("fpA", "uaA", "ipA"))
    \/ \E t \in Tokens, c \in CodeInputs :
           verify_session(t, c, BrowserInfo("fpA", "uaA", "ipA"))
    \/ \E t \in Tokens : start_session(t)
    \/ \E t \in Tokens : validate_active_session(t, BrowserInfo(None, "uaA", "ipA"))
    \/ \E t \in TokenInputs : complete_session(t, None)
    \/ \E t \in Tokens, sev \in Severities :
           flag_session(t, "TAB_SWITCH", sev) /\ FlagsWithin(MaxIntegrityFlags)'
    \/ Tick

\* the session lifecycle with longer flag lists and a browser that does not change
SpecIntegrity == Init /\ [][NextIntegrity]_vars

NextConcSession ==
    \/ \E t \in Tokens, d \in Durations :
           create_proctored_session(t, "u1", "A2", d, BrowserInfo("fpA", "uaA", "ipA"))
    \/ \E t \in Tokens : verify_session(t, Code, BrowserInfo("fpA", "uaA", "ipA"))
    \/ \E t \in Tokens : start_session(t)
    \/ \E t \in Tokens : flag_session(t, "TAB_SWITCH", "critical") /\ FlagsWithin(1)'
    \/ \E r \in Reqs, t \in Tokens : validate_load(r, t, BrowserInfo(None, "uaA", "ipA"))
    \/ \E r \in Reqs : validate_commit(r)
    \/ \E r \in Reqs, t \in Tokens : complete_load(r, t)
    \/ \E r \in Reqs : complete_commit(r, None)

\* validate_active_session and complete_session calls of two requests, interleaved
SpecConcSession == Init /\ [][NextConcSession]_vars

\* inputs of the submission pipeline
Scores == {0 - 1, 30, 60, 111}

Solutions == {Solution("balanced", 1), Solution("balanced", 3), Solution("constant", 1)}

\* the levels of the Deutsch-Jozsa games
SubmitLevels == {"A1", "A2", "B1"}

\* the tokens a submission to a level carries: a level without proctoring
\* never looks at the token
TokensFor(l) == IF Level(l).requires_proctoring THEN {None} \cup Tokens ELSE {None}

\* submissions without a solution report any score in a plausible time, or a
\* score in an implausibly short time; one with a solution reports the full score
SubmissionInputs(l) ==
    {Submission(sc, {120}, Null, tk, BrowserInfo(None, "uaA", "ipA")) :
        sc \in Scores, tk \in TokensFor(l)}
    \cup
    {Submission(60, {3}, Null, tk, BrowserInfo(None, "uaA", "ipA")) : tk \in TokensFor(l)}
    \cup
    {Submission(100, {120}, {sol}, tk, BrowserInfo(None, "uaA", "ipA")) :
        sol \in Solutions, tk \in TokensFor(l)}

TotalAttempts ==
    LET RECURSIVE Sum(_)
        Sum(i) == IF i = 0 THEN 0 ELSE progress[i].attempts + Sum(i - 1)
    IN Sum(Len(progress))

NextSubmit ==
    \/ \E t \in Tokens, d \in Durations :
           create_proctored_session(t, "u1", "A2", d, BrowserInfo("fpA", "uaA", "ipA"))
    \/ \E t \in Tokens : verify_session(t, Code, BrowserInfo("fpA", "uaA", "ipA"))
    \/ \E t \in Tokens : start_session(t)
    \/ \E l \in SubmitLevels : \E sub \in SubmissionInputs(l) :
           TotalAttempts < MaxSubmissions /\ complete_level("u1", l, sub)
    \/ TotalAttempts < MaxSubmissions
          /\ complete_level("u2", "A1",
                            Submission(100, {120}, {Solution("balanced", 1)}, None,
                                       BrowserInfo(None, "uaA", "ipA")))

\* submissions one at a time, with a proctored session for level A2
SpecSubmit == Init /\ [][NextSubmit]_vars

ConcSubmissions ==
    {Submission(sc, {120}, Null, None, BrowserInfo(None, "uaA", "ipA")) : sc \in Scores}

NextConcSubmit ==
    \/ \E r \in Reqs, l \in {"A1", "B1"}, sub \in ConcSubmissions :
           TotalAttempts < MaxSubmissions /\ submit_load(r, "u1", l, sub)
    \/ \E r \in Reqs : submit_commit(r)

\* complete_level calls of two requests of one user, interleaved
SpecConcSubmit == Init /\ [][NextConcSubmit]_vars

----------------------------------------------------------------------------
(* Calls of the gates' pure functions: a call is drawn, then it returns *)

\* the tables are empty and no request is in flight; result holds the call
PureInit ==
    /\ now = 0
    /\ sessions = << >>
    /\ progress = << >>
    /\ total_xp = [u \in Users |-> 0]
    /\ reqs = [r \in Reqs |-> Idle]

TimeCalls ==
    [op : {"call"}, estimated_minutes : 1..MaxEstimate, difficulty : 1..MaxDifficulty,
     time_seconds : {Null} \cup {{t} : t \in 0..MaxSeconds}, ok : {FALSE}]

call_validate_completion_time ==
    /\ result.op = "call"
    /\ result' = [result EXCEPT
          !.op = "validate_completion_time",
          !.ok = validate_completion_time(
                    [estimated_minutes |-> result.estimated_minutes,
                     difficulty |-> result.difficulty], result.time_seconds)]
    /\ UNCHANGED << now, sessions, progress, total_xp, reqs >>

InitTime == PureInit /\ result \in TimeCalls

NextTime == call_validate_completion_time

\* validate_completion_time on every level and time within the bounds
SpecTime == InitTime /\ [][NextTime]_vars

ScoreCalls ==
    [op : {"call"}, max_score : 0..MaxMaxScore, score : (0 - 2)..(MaxMaxScore + 5),
     ok : {FALSE}]

call_validate_score_bounds ==
    /\ result.op = "call"
    /\ result' = [result EXCEPT
          !.op = "validate_score_bounds",
          !.ok = validate_score_bounds(result.score, result.max_score)]
    /\ UNCHANGED << now, sessions, progress, total_xp, reqs >>

InitScoreBounds == PureInit /\ result \in ScoreCalls

NextScoreBounds == call_validate_score_bounds

\* validate_score_bounds on every score and max_score within the bounds
SpecScoreBounds == InitScoreBounds /\ [][NextScoreBounds]_vars

\* calls of ServerSideScorer.calculate_score: the game's slug, the level's
\* config and the submitted solution
ScorerMaxScores == {0, 30, 100}

DeutschCalls ==
    [op : {"call"}, slug : {"deutsch-challenge"},
     level : [max_score : ScorerMaxScores, oracle_type : {"balanced", "constant"}],
     solution : [answer : {"balanced", "constant"}, queries : 0..MaxQueries],
     score : {0}, correct : {FALSE}]

GroverCalls ==
    [op : {"call"}, slug : {"grovers-maze"},
     level : [max_score : ScorerMaxScores, marked_items : {{"i3"}}, optimal_iterations : {1}],
     solution : [found_item : {None, "i3", "i5"}, iterations : 0..MaxIterations],
     score : {0}, correct : {FALSE}]

Circuits ==
    {[num_qubits |-> 1, operations |-> ops] :
        ops \in {<< "X" >>, << "H" >>, << "FOO" >>, << "X", "Z" >>, << "Z", "X", "Z" >>}}

CircuitCalls ==
    [op : {"call"}, slug : {"circuit-architect"},
     level : [max_score : ScorerMaxScores, target_state : {None, "one"},
              optimal_gate_count : {1}],
     solution : [circuit : {Null} \cup {{c} : c \in Circuits}],
     score : {0}, correct : {FALSE}]

DefaultCalls ==
    [op : {"call"}, slug : {"test-game"},
     level : [max_score : ScorerMaxScores],
     solution : [score : {0 - 5, 0, 50, 150}],
     score : {0}, correct : {FALSE}]

call_calculate_score ==
    /\ result.op = "call"
    /\ LET out == calculate_score([slug |-> result.slug], result.level, result.solution) IN
       result' = [result EXCEPT !.op = "calculate_score",
                                !.score = out.score, !.correct = out.correct]
    /\ UNCHANGED << now, sessions, progress, total_xp, reqs >>

InitScorer ==
    /\ PureInit
    /\ \/ result \in DeutschCalls
       \/ result \in GroverCalls
       \/ result \in CircuitCalls
       \/ result \in DefaultCalls

NextScorer == call_calculate_score

\* calculate_score on the Deutsch-Jozsa, Grover, circuit and default strategies
SpecScorer == InitScorer /\ [][NextScorer]_vars

GateLists == UNION {[1..k -> PuzzleGates] : k \in 0..MaxGates}

\* what the client reports beside the gates: a final state and a score
ClientReports == {[final_state |-> "|0>", score |-> 0], [final_state |-> "|+>", score |-> 100]}

GateCalls ==
    {[op |-> "call", slug |-> "gate-puzzle",
      level |-> [max_score |-> m, initial_state |-> i, target_state_symbol |-> t,
                 optimal_gate_count |-> o],
      solution |-> [gates |-> g, final_state |-> c.final_state, score |-> c.score],
      score |-> 0, correct |-> FALSE] :
        m \in {50, 100}, i \in {"|0>", "|->"}, t \in {"|+>", "|1>"}, o \in {0, 1},
        g \in GateLists, c \in ClientReports}

InitGatePuzzle == PureInit /\ result \in GateCalls

NextGatePuzzle == call_calculate_score

\* calculate_score on the gate puzzle, every gate list within the bound
SpecGatePuzzle == InitGatePuzzle /\ [][NextGatePuzzle]_vars

\* submissions to the circuit levels: a circuit that reaches the target, one
\* that does not and one with a gate the simulator does not know
CircuitLevels == {"Q1", "Q2"}

CircuitSubmissions ==
    {Submission(sc, {120}, {[circuit |-> {c}]}, None, BrowserInfo(None, "uaA", "ipA")) :
        sc \in {50, 100}, c \in Circuits}

NextCircuit ==
    \E u \in Users, l \in CircuitLevels, sub \in CircuitSubmissions :
        TotalAttempts < MaxCircuitSubmissions /\ complete_level(u, l, sub)

\* complete_level on the circuit levels, one call at a time
SpecCircuit == Init /\ [][NextCircuit]_vars

\* calls of check_solution_diversity: user 0 submits to level A1; users
\* 0..MaxOthers each have a row for A1 or A2, with or without a best solution
DiversitySolutions == {Solution("balanced", 1), Solution("balanced", 2), Solution("constant", 1)}

DiversityTables ==
    {[i \in 1..(MaxOthers + 1) |->
         [user_id |-> i - 1, level_id |-> f[i].level_id, best_solution |-> f[i].best_solution]] :
        f \in [1..(MaxOthers + 1) ->
                 [level_id : {"A1", "A2"},
                  best_solution : {Null} \cup {{x} : x \in DiversitySolutions}]]}

DiversityCalls ==
    [op : {"call"}, table : DiversityTables, user : {0}, level : {"A1"},
     solution : DiversitySolutions, ok : {FALSE}, warning : {None},
     exact_duplicates : {0}, similar_solutions : {0}]

call_check_solution_diversity ==
    /\ result.op = "call"
    /\ LET out == check_solution_diversity(result.table, result.user, Level(result.level),
                                           result.solution) IN
       result' = [result EXCEPT !.op = "check_solution_diversity",
                                !.ok = out.is_unique, !.warning = out.warning,
                                !.exact_duplicates = out.exact_duplicates,
                                !.similar_solutions = out.similar_solutions]
    /\ UNCHANGED << now, sessions, progress, total_xp, reqs >>

InitDiversity == PureInit /\ result \in DiversityCalls

NextDiversity == call_check_solution_diversity

\* check_solution_diversity on every table of stored solutions within the bound
SpecDiversity == InitDiversity /\ [][NextDiversity]_vars

\* browsers with and without a user agent and an IP address
BrowserInputs ==
    {BrowserInfo(None, ua, ip) : ua \in {None, "uaA", "uaB"}, ip \in {None, "ipA", "ipB"}}

NextValidate ==
    \/ \E t \in Tokens, d \in Durations, ua \in {None, "uaA"}, ip \in {None, "ipA"} :
           create_proctored_session(t, "u1", "A2", d, BrowserInfo("fpA", ua, ip))
    \/ \E t \in Tokens : verify_session(t, Code, BrowserInfo("fpA", "uaA", "ipA"))
    \/ \E t \in Tokens : start_session(t)
    \/ \E t \in TokenInputs, bi \in BrowserInputs :
           validate_active_session(t, bi) /\ FlagsWithin(MaxFlags)'
    \/ Tick

\* the session lifecycle with sessions and browsers that lack a user agent or
\* an IP address
SpecValidate == Init /\ [][NextValidate]_vars

NextFlag ==
    \/ \E t \in Tokens, d \in Durations :
           create_proctored_session(t, "u1", "A2", d, BrowserInfo("fpA", "uaA", "ipA"))
    \/ \E t \in Tokens : verify_session(t, Code, BrowserInfo("fpA", "uaA", "ipA"))
    \/ \E t \in Tokens : start_session(t)
    \/ \E t \in Tokens :
           validate_active_session(t, BrowserInfo(None, "uaA", "ipA")) /\ FlagsWithin(MaxFlags)'
    \/ \E t \in Tokens : complete_session(t, None)
    \/ \E t \in TokenInputs, sev \in Severities :
           flag_session(t, "TAB_SWITCH", sev) /\ FlagsWithin(MaxFlags)'
    \/ Tick

\* the session lifecycle with right codes and an unchanged browser, flagged at
\* every status
SpecFlag == Init /\ [][NextFlag]_vars

NextViews ==
    \/ \E t \in Tokens, d \in Durations :
           create_proctored_session(t, "u1", "A2", d, BrowserInfo("fpA", "uaA", "ipA"))
    \/ \E t \in Tokens, c \in CodeInputs :
           verify_session(t, c, BrowserInfo("fpA", "uaA", "ipA")) /\ FlagsWithin(MaxFlags)'
    \/ \E t \in Tokens : start_session(t)
    \/ \E t \in Tokens :
           validate_active_session(t, BrowserInfo(None, "uaA", "ipA")) /\ FlagsWithin(MaxFlags)'
    \/ \E t \in Tokens : complete_session(t, None)
    \/ \E t \in Tokens : flag_session(t, "TAB_SWITCH", "critical") /\ FlagsWithin(MaxFlags)'
    \/ \E t \in TokenInputs : get_proctored_session(t)
    \/ \E u \in Users : get_my_sessions(u)
    \/ Tick

\* the session lifecycle with the endpoints that read sessions
SpecViews == Init /\ [][NextViews]_vars

\* two generators are constructed independently, on any day; then the same
\* calls are made on both
construct(i, user_id, level_id, seed_rotation) ==
    /\ result.op \in {"seeds", "construct"}
    /\ result.generators[i] = Null
    /\ result' = [result EXCEPT
                    !.op = "construct",
                    !.generators[i] =
                        Some(ChallengeSeedGenerator(user_id, level_id, seed_rotation, now)),
                    !.days[i] = now]
    /\ UNCHANGED << now, sessions, progress, total_xp, reqs >>

call_generators(method) ==
    /\ result.op \in {"construct", "call_generators"}
    /\ \A i \in 1..2 : result.generators[i] # Null
    /\ Len(result.calls) < MaxCalls
    /\ LET Out(i) ==
              LET g == TheOne(result.generators[i]) IN
              CASE method = "random_int" -> random_int(g, 1, 6)
                [] method = "random_choice" -> random_choice(g, << "a", "b", "c" >>)
                [] method = "random_sample" -> random_sample(g, << "a", "b", "c", "d" >>, 2)
                [] OTHER -> shuffle(g, << "a", "b", "c" >>)
       IN  result' = [result EXCEPT
                        !.op = "call_generators",
                        !.calls = Append(@, method),
                        !.generators = [i \in 1..2 |-> Some(Out(i).generator)],
                        !.values = [i \in 1..2 |-> Append(@[i], Out(i).value)]]
    /\ UNCHANGED << now, sessions, progress, total_xp, reqs >>

InitSeeds ==
    /\ PureInit
    /\ result = [op |-> "seeds", generators |-> [i \in 1..2 |-> Null],
                 days |-> [i \in 1..2 |-> 0], calls |-> << >>,
                 values |-> [i \in 1..2 |-> << >>]]

NextSeeds ==
    \/ \E i \in 1..2, u \in Users, l \in {"A1", "A2"}, rot \in {"static", "daily"} :
           construct(i, u, l, rot)
    \/ \E method \in {"random_int", "random_choice", "random_sample", "shuffle"} :
           call_generators(method)
    \/ Tick

SpecSeeds == InitSeeds /\ [][NextSeeds]_vars

call_generate_gate_puzzle_challenge ==
    /\ result.op = "call"
    /\ result' = [result EXCEPT
                    !.op = "generate_gate_puzzle_challenge",
                    !.config = Some(generate_gate_puzzle_challenge(
                                        result.generator, [max_score |-> result.max_score]))]
    /\ UNCHANGED << now, sessions, progress, total_xp, reqs >>

InitPuzzle ==
    /\ PureInit
    /\ result \in [op : {"call"}, max_score : {50, 100},
                   generator : {[user_id |-> "u1", level_id |-> "A1", seed_rotation |-> "static",
                                 seed |-> sd, rng |-> sd] : sd \in 0..MaxSeed},
                   config : {Null}]

\* generate_gate_puzzle_challenge on generators of every seed within the bound
SpecPuzzle == InitPuzzle /\ [][call_generate_gate_puzzle_challenge]_vars

\* one request at a time submits to A1 and to the proctored level A2, with
\* sessions created for either user and flags arriving at any moment, also
\* between a submission's validation and its commit
\* complete_level on the levels of the game with server_side_scoring: the
\* client reports 40 or 100, with a circuit or with no solution payload
NextServerScore ==
    \E u \in Users, l \in CircuitLevels, sc \in {40, 100},
       sol \in {Null} \cup {{[circuit |-> {c}]} : c \in Circuits} :
        /\ TotalAttempts < MaxCircuitSubmissions
        /\ complete_level(u, l, Submission(sc, {120}, sol, None, BrowserInfo(None, "uaA", "ipA")))

SpecServerScore == Init /\ [][NextServerScore]_vars

\* complete_level calls of two requests of one user for the first levels of
\* two games, interleaved
NextConcXp ==
    \/ \E r \in Reqs, l \in {"A1", "Q1"}, sc \in {30, 60} :
           /\ TotalAttempts < MaxSubmissions
           /\ submit_load(r, "u1", l,
                          Submission(sc, {120}, Null, None, BrowserInfo(None, "uaA", "ipA")))
    \/ \E r \in Reqs : submit_commit(r)

SpecConcXp == Init /\ [][NextConcXp]_vars

NextProctored ==
    \/ \E t \in Tokens, u \in Users :
           create_proctored_session(t, u, "A2", 1, BrowserInfo("fpA", "uaA", "ipA"))
    \/ \E t \in Tokens : verify_session(t, Code, BrowserInfo("fpA", "uaA", "ipA"))
    \/ \E t \in Tokens : start_session(t)
    \/ \E t \in Tokens : flag_session(t, "TAB_SWITCH", "critical") /\ FlagsWithin(MaxFlags)'
    \/ \E l \in {"A1", "A2"}, tk \in {None} \cup Tokens :
           /\ TotalAttempts <= MaxSubmissions
           /\ submit_load("r1", "u1", l,
                          Submission(60, {120}, Null, tk, BrowserInfo(None, "uaA", "ipA")))
    \/ submit_commit("r1")

SpecProctored == Init /\ [][NextProctored]_vars

----------------------------------------------------------------------------
(* Claims about the session state machine *)

Status(t) == sessions[t].status

\* C1: over any sequence of create, verify, start, validate, flag and complete
\* calls, a session's status changes only along PENDING->VERIFIED (successful
\* verify), VERIFIED->ACTIVE (start), ACTIVE->FLAGGED (critical flag),
\* ACTIVE->INVALIDATED (failed validate), ACTIVE->COMPLETED and
\* FLAGGED->COMPLETED (complete); a new session is PENDING and nothing leaves
\* COMPLETED or INVALIDATED.
C1_StatusEdges ==
    [][\A t \in Tokens :
          IF t \notin DOMAIN sessions
          THEN t \in DOMAIN sessions' => sessions'[t].status = "pending"
          ELSE /\ t \in DOMAIN sessions'
               /\ LET old == sessions[t].status
                      new == sessions'[t].status IN
                  \/ new = old
                  \/ old = "pending" /\ new = "verified"
                        /\ result'.op = "verify" /\ result'.ok
                  \/ old = "verified" /\ new = "active"
                        /\ result'.op = "start" /\ result'.ok
                  \/ old = "active" /\ new = "flagged" /\ result'.op = "flag"
                        /\ sessions'[t].flags[Len(sessions'[t].flags)].severity = "critical"
                  \/ old = "active" /\ new = "invalidated"
                        /\ result'.op = "validate" /\ ~result'.ok
                        /\ now - sessions[t].started_at
                              > sessions[t].max_duration_minutes * TicksPerMinute
                  \/ old \in {"active", "flagged"} /\ new = "completed"
                        /\ result'.op = "complete" /\ result'.ok]_vars

\* a flagged session has been completed
C1_Witness ==
    \E t \in DOMAIN sessions :
        /\ Status(t) = "completed"
        /\ result.op = "complete" /\ result.ok
        /\ \E i \in 1..Len(sessions[t].flags) : sessions[t].flags[i].severity = "critical"

ExpectedIntegrity(flags) ==
    Max2(0, 100 - 30 * Cardinality({i \in DOMAIN flags : flags[i].severity = "critical"})
                - 10 * Cardinality({i \in DOMAIN flags : flags[i].severity = "warning"})
                - 2 * Cardinality({i \in DOMAIN flags : flags[i].severity = "info"}))

\* C7: complete_session succeeds exactly from ACTIVE or FLAGGED; on success the
\* status is COMPLETED, ended_at is the time of the call and integrity_score is
\* max(0, 100 - 30*critical - 10*warning - 2*info) over the flags of that
\* moment; from any other status, or an unknown token, it fails and changes
\* nothing.
C7_Complete ==
    [][\A t \in TokenInputs :
          complete_session(t, None) =>
             IF t \in DOMAIN sessions /\ sessions[t].status \in {"active", "flagged"}
             THEN /\ result'.ok
                  /\ sessions'[t].status = "completed"
                  /\ sessions'[t].ended_at = {now}
                  /\ sessions'[t].integrity_score = {ExpectedIntegrity(sessions[t].flags)}
                  /\ sessions'[t].flags = sessions[t].flags
             ELSE /\ ~result'.ok
                  /\ sessions' = sessions]_vars

\* a session completed with four critical flags: the score is floored at 0
C7_Witness ==
    \E t \in DOMAIN sessions :
        /\ result.op = "complete" /\ result.ok
        /\ Status(t) = "completed"
        /\ Len(sessions[t].flags) = 4
        /\ \A i \in 1..4 : sessions[t].flags[i].severity = "critical"
        /\ sessions[t].integrity_score = {0}

ValidateInputs == {BrowserInfo(None, ua, ip) : ua \in {"uaA", "uaB"}, ip \in {"ipA", "ipB"}}

\* C8: validate_active_session on an ACTIVE session whose time since the start
\* call exceeds max_duration_minutes fails, sets INVALIDATED and appends a
\* critical flag; a started session with max_duration_minutes = 0 always fails
\* it; the time is measured from the start call (start stores its clock reading).
C8_Expiry ==
    [][\A t \in Tokens :
          /\ (start_session(t) /\ result'.ok) => sessions'[t].started_at = now
          /\ \A bi \in ValidateInputs :
                (/\ validate_active_session(t, bi)
                 /\ t \in DOMAIN sessions
                 /\ sessions[t].status = "active"
                 /\ \/ now - sessions[t].started_at
                          > sessions[t].max_duration_minutes * TicksPerMinute
                    \/ sessions[t].max_duration_minutes = 0)
                => /\ ~result'.ok
                   /\ sessions'[t].status = "invalidated"
                   /\ sessions'[t].flags =
                         Append(sessions[t].flags, Flag("TIME_LIMIT_EXCEEDED", "critical"))]_vars

\* a started session with max_duration_minutes = 0 failed its validation
C8_Witness ==
    \E t \in DOMAIN sessions :
        /\ result.op = "validate" /\ ~result.ok
        /\ sessions[t].max_duration_minutes = 0
        /\ Status(t) = "invalidated"
        /\ Len(sessions[t].flags) = 1
        /\ sessions[t].flags[1] = Flag("TIME_LIMIT_EXCEEDED", "critical")

VerifyInputs == {BrowserInfo(fp, "uaA", "ipA") : fp \in {"fpA", "fpB"}}

\* C9: verify_session with an unknown token, a session not PENDING or a wrong
\* code fails and leaves the status unchanged; a wrong code on a PENDING session
\* also records a warning flag INVALID_VERIFICATION_CODE on the stored session.
C9_WrongCodeAudited ==
    [][\A t \in TokenInputs, c \in CodeInputs, bi \in VerifyInputs :
          verify_session(t, c, bi) =>
             /\ (t \notin DOMAIN sessions) => (~result'.ok /\ sessions' = sessions)
             /\ (t \in DOMAIN sessions /\ sessions[t].status # "pending")
                   => (~result'.ok /\ sessions' = sessions)
             /\ (t \in DOMAIN sessions /\ sessions[t].status = "pending" /\ c # Code)
                   => /\ ~result'.ok
                      /\ sessions'[t].status = "pending"
                      /\ sessions'[t].flags =
                            Append(sessions[t].flags,
                                   Flag("INVALID_VERIFICATION_CODE", "warning"))]_vars

\* C2: with validate_active_session and complete_session calls running
\* concurrently on one token, a session set to INVALIDATED is never afterwards
\* COMPLETED, and complete_session does not report success while the stored
\* status is INVALIDATED.
C2_Linearizable ==
    [][\A t \in DOMAIN sessions :
          /\ sessions[t].status = "invalidated" => sessions'[t].status = "invalidated"
          /\ (\E r \in Reqs : complete_commit(r, None) /\ reqs[r].token = t /\ result'.ok)
                => sessions'[t].status # "invalidated"]_vars

----------------------------------------------------------------------------
(* Claims about the submission pipeline *)

\* the stored score of a (user, level) pair; 0 before the first record
StoredScore(table, user, l) ==
    IF ProgressRows(table, user, l) = {} THEN 0
    ELSE table[TheOne(ProgressRows(table, user, l))].score

StoredAttempts(table, user, l) ==
    IF ProgressRows(table, user, l) = {} THEN 0
    ELSE table[TheOne(ProgressRows(table, user, l))].attempts

\* C3: a complete_level submission rejected by a gate leaves the progress
\* records and the total XP unchanged and completes no proctored session: a
\* step of complete_level that changes any of them is an accepted one.
C3_RejectedFrame ==
    [][(result'.op = "submit" /\ ~result'.ok) =>
          /\ progress' = progress
          /\ total_xp' = total_xp
          /\ \A t \in DOMAIN sessions :
                sessions'[t].status = "completed" => sessions[t].status = "completed"]_vars

\* a submission for the proctored level, carrying a valid session, was rejected
\* by solution verification: the session is still active
C3_Witness ==
    /\ result.op = "submit" /\ ~result.ok
    /\ result.level = "A2" /\ result.error = "SOLUTION_VERIFICATION_FAILED"
    /\ "tok1" \in DOMAIN sessions /\ sessions["tok1"].status = "active"
    /\ Len(progress) > 0

\* C5: over any sequence of submissions no stored score decreases, and after an
\* accepted submission the stored score of its (user, level) pair is the maximum
\* of the score stored before and the submission's verified score.
C5_ScoreMonotone ==
    [][/\ Len(progress') >= Len(progress)
       /\ \A i \in 1..Len(progress) : progress'[i].score >= progress[i].score
       /\ (result'.op = "submit" /\ result'.ok) =>
             StoredScore(progress', result'.user, result'.level)
                = Max2(StoredScore(progress, result'.user, result'.level), result'.score)]_vars

\* an accepted submission scored less than what was stored, and the stored
\* score was kept
C5_Witness ==
    /\ result.op = "submit" /\ result.ok
    /\ result.score < StoredScore(progress, result.user, result.level)
    /\ StoredAttempts(progress, result.user, result.level) >= 2

\* C6: a record is completed exactly when its stars are >= 1, that is when its
\* stored score is at least 50% of max_score, so it becomes completed at the
\* first accepted submission that brings the score there; a completed record
\* stays completed and keeps its completed_at.
C6_CompletedOnce ==
    [][\A i \in 1..Len(progress') :
          LET r == progress'[i] IN
          /\ r.completed <=> r.stars >= 1
          /\ r.stars >= 1 <=> r.score * 2 >= r.max_score
          /\ r.completed <=> r.completed_at # Null
          /\ (i > Len(progress) \/ ~progress[i].completed) /\ r.completed
                => r.completed_at = {now}
          /\ (i <= Len(progress) /\ progress[i].completed)
                => r.completed /\ r.completed_at = progress[i].completed_at]_vars

\* a record completed earlier has taken a later accepted submission
C6_Witness ==
    /\ result.op = "submit" /\ result.ok
    /\ \E i \in 1..Len(progress) :
          /\ progress[i].user_id = result.user /\ progress[i].level_id = result.level
          /\ progress[i].attempts >= 2
          /\ progress[i].completed
          /\ progress[i].completed_at # Null
          /\ TheOne(progress[i].completed_at) < now

\* the user has a completed record for the level before l in l's game
PreviousCompleted(user, l) ==
    \E p \in Levels :
        /\ Level(p).game_id = Level(l).game_id
        /\ Level(p).sequence = Level(l).sequence - 1
        /\ \E i \in 1..Len(progress) :
              /\ progress[i].user_id = user
              /\ progress[i].level_id = p
              /\ progress[i].completed

\* C10: check_prerequisites reports no missing level for a level of sequence
\* N > 1 exactly when the user has a completed record for the level of sequence
\* N - 1 of the same game, and never reports one for a level of sequence 1; a
\* submission to level 2 is accepted only with level 1 completed.
C10_LevelChain ==
    /\ \A u \in Users, l \in Levels :
          LET out == check_prerequisites(progress, u, Game(Level(l).game_id), Level(l)) IN
          (out.missing.levels = {}) <=> (Level(l).sequence = 1 \/ PreviousCompleted(u, l))
    /\ (result.op = "submit" /\ result.ok /\ Level(result.level).sequence > 1)
          => PreviousCompleted(result.user, result.level)
    /\ (result.op = "submit" /\ result.error = "PREREQUISITES_NOT_MET"
           /\ Level(result.level).sequence > 1)
          => ~PreviousCompleted(result.user, result.level)

\* level 2 was refused to a user whose level 1 record is not completed
C10_Witness ==
    /\ result.op = "submit" /\ result.error = "PREREQUISITES_NOT_MET"
    /\ result.level = "A2"
    /\ StoredAttempts(progress, result.user, "A1") >= 1
    /\ ~PreviousCompleted(result.user, "A2")

\* C4: with complete_level calls of one user for one level interleaved, each
\* accepted submission leaves exactly one record for the pair, with one more
\* attempt than was stored and the maximum of the stored and the accepted score.
C4_NoLostUpdate ==
    [][\A r \in Reqs :
          submit_commit(r) =>
             LET u == reqs[r].user
                 l == reqs[r].level IN
             /\ Cardinality(ProgressRows(progress', u, l)) = 1
             /\ StoredAttempts(progress', u, l) = StoredAttempts(progress, u, l) + 1
             /\ StoredScore(progress', u, l)
                   = Max2(StoredScore(progress, u, l), reqs[r].score)]_vars

----------------------------------------------------------------------------
(* Claims about the anti-cheat gates *)

\* the user has a completed record for a level of the game with that slug
HasCompletedIn(user, slug) ==
    \E i \in 1..Len(progress) :
        /\ progress[i].user_id = user
        /\ progress[i].completed
        /\ Level(progress[i].level_id).game_id = slug

\* C11: check_prerequisites passes only if the user has a completed level in
\* the game of every slug in prerequisite_games; every slug without one is in
\* the missing list and makes the check fail.
C11_PrerequisiteGames ==
    \A u \in Users, l \in Levels :
        LET game == Game(Level(l).game_id)
            out == check_prerequisites(progress, u, game, Level(l))
            passes == ~out.raised /\ out.ok IN
        /\ passes => \A slug \in game.prerequisite_games : HasCompletedIn(u, slug)
        /\ \A slug \in game.prerequisite_games :
              ~HasCompletedIn(u, slug) => (~passes /\ (out.raised \/ slug \in out.missing.games))

\* the games of a tier in which the user has a record with that many stars
MasteredGames(user, tier, min_stars) ==
    {g \in Games :
        /\ Game(g).target_level = tier
        /\ \E i \in 1..Len(progress) :
              /\ progress[i].user_id = user
              /\ progress[i].stars >= min_stars
              /\ Level(progress[i].level_id).game_id = g}

\* C12: check_education_tier_mastery passes for the first tier; for a later
\* tier it fails exactly when the user has min_stars stars in fewer than
\* min_games_completed distinct games of the tier before. complete_level asks
\* for 2 stars in 1 game: a junior_high level is refused for tier mastery only
\* to a user without such a basic_school record and accepted only with one.
C12_TierMastery ==
    /\ \A u \in Users, k \in 1..Len(tier_order), min_stars \in 1..3, min_games \in 1..2 :
          check_education_tier_mastery(progress, u, tier_order[k], min_stars, min_games)
             <=> \/ k = 1
                 \/ Cardinality(MasteredGames(u, tier_order[k - 1], min_stars)) >= min_games
    /\ (result.op = "submit" /\ result.error = "TIER_MASTERY_REQUIRED")
          => /\ Game(Level(result.level).game_id).target_level = "junior_high"
             /\ MasteredGames(result.user, "basic_school", 2) = {}
    /\ (result.op = "submit" /\ result.ok
           /\ Game(Level(result.level).game_id).target_level = "junior_high")
          => MasteredGames(result.user, "basic_school", 2) # {}

\* a junior_high level was refused to a user whose basic_school record has one star
C12_Witness ==
    /\ result.op = "submit" /\ result.error = "TIER_MASTERY_REQUIRED"
    /\ result.level = "B1"
    /\ MasteredGames(result.user, "basic_school", 1) # {}
    /\ MasteredGames(result.user, "basic_school", 2) = {}

\* C13: validate_completion_time passes without a time; with one it fails
\* exactly when time_seconds < max(5, estimated_minutes * 60 * 0.10)
\* * (1 + 0.05 * (difficulty - 1)), compared here in hundredths.
C13_MinTime ==
    result.op = "validate_completion_time" =>
        (result.ok <=>
            \/ result.time_seconds = Null
            \/ ~(TheOne(result.time_seconds) * 100
                   < Max2(5, result.estimated_minutes * 6)
                        * (100 + 5 * (result.difficulty - 1))))

\* C14: validate_score_bounds rejects a negative score, accepts 0 <= s <=
\* max_score * 1.10, the boundary included, and rejects s > max_score * 1.10.
C14_ScoreBounds ==
    result.op = "validate_score_bounds" =>
        /\ result.score < 0 => ~result.ok
        /\ (result.score >= 0 /\ result.score * 10 <= result.max_score * 11) => result.ok
        /\ result.score * 10 > result.max_score * 11 => ~result.ok

\* the boundary value 11 for max_score 10 was accepted
C14_Witness ==
    /\ result.op = "validate_score_bounds"
    /\ result.max_score = 10 /\ result.score = 11
    /\ result.ok

\* C15: for every strategy, every max_score >= 0 and every solution,
\* calculate_score returns a score with 0 <= score <= max_score.
C15_ScoreClamped ==
    result.op = "calculate_score" =>
        (0 <= result.score /\ result.score <= result.level.max_score)

\* the gates as maps of the four states: X swaps |0> and |1>, Z swaps |+> and
\* |->, H swaps |0> with |+> and |1> with |->, Y does both swaps of X and Z
GateImage(state, gate) ==
    LET FlipBit(k) == IF k = "|0>" THEN "|1>" ELSE IF k = "|1>" THEN "|0>" ELSE k
        FlipSign(k) == IF k = "|+>" THEN "|->" ELSE IF k = "|->" THEN "|+>" ELSE k
        Hadamard(k) == IF k = "|0>" THEN "|+>" ELSE IF k = "|+>" THEN "|0>"
                       ELSE IF k = "|1>" THEN "|->" ELSE "|1>"
    IN  CASE gate = "X" -> FlipBit(state)
          [] gate = "Z" -> FlipSign(state)
          [] gate = "Y" -> FlipSign(FlipBit(state))
          [] OTHER -> Hadamard(state)

RECURSIVE FinalKet(_, _)
FinalKet(state, gates) ==
    IF gates = << >> THEN state
    ELSE FinalKet(GateImage(state, Head(gates)), Tail(gates))

\* C16: the gate-puzzle score replays the gate list from initial_state: a final
\* state other than target_state_symbol scores 0 with correct = false; the
\* target scores min(max_score, 60 + bonus), bonus 40 up to optimal_gate_count
\* gates and max(0, 40 - 10 per extra gate) beyond; the client's final_state and
\* score play no part.
C16_GatePuzzle ==
    result.op = "calculate_score" =>
        LET config == result.level
            gates == result.solution.gates
            extra == Len(gates) - config.optimal_gate_count
            bonus == IF extra <= 0 THEN 40 ELSE Max2(0, 40 - 10 * extra)
        IN  IF FinalKet(config.initial_state, gates) # config.target_state_symbol
            THEN result.score = 0 /\ ~result.correct
            ELSE result.score = Min2(config.max_score, 60 + bonus) /\ result.correct

\* |0> with [H] and optimal 1 scored 100 for target |+> although the client
\* reported final state |0> and score 0
C16_Witness ==
    /\ result.op = "calculate_score"
    /\ result.level.initial_state = "|0>" /\ result.level.target_state_symbol = "|+>"
    /\ result.level.optimal_gate_count = 1 /\ result.level.max_score = 100
    /\ result.solution.gates = << "H" >>
    /\ result.solution.final_state = "|0>" /\ result.solution.score = 0
    /\ result.score = 100 /\ result.correct

\* the simulator raises on the submission's circuit
OracleFails(sub) ==
    /\ sub.solution # Null
    /\ verify_circuit(TheOne(TheOne(sub.solution).circuit).operations, "one").raised

\* C17: a submission whose circuit makes the simulator raise is never accepted
\* and never counted as an attempt.
C17_OracleFailure ==
    [][\A u \in Users, l \in CircuitLevels, sub \in CircuitSubmissions :
          (complete_level(u, l, sub) /\ OracleFails(sub))
             => (~result'.ok /\ progress' = progress)]_vars

\* the rows the submission is compared with: other users' rows for the same
\* level that store a solution
ComparedRows ==
    {i \in DOMAIN result.table : /\ result.table[i].user_id # result.user
                                 /\ result.table[i].level_id = result.level
                                 /\ result.table[i].best_solution # Null}

Duplicates == {i \in ComparedRows : result.table[i].best_solution = {result.solution}}

\* two solutions with an answer are similar (1.0) exactly when the answers agree
NearDuplicates ==
    {i \in ComparedRows \ Duplicates :
        TheOne(result.table[i].best_solution).answer = result.solution.answer}

\* C18: check_solution_diversity compares only with other users' stored
\* solutions for the same level; it fails as an exact duplicate when at least
\* one of them equals the submission, otherwise as too similar when more than
\* 2 of them are similar, and otherwise passes.
C18_Diversity ==
    result.op = "check_solution_diversity" =>
        /\ result.exact_duplicates = Cardinality(Duplicates)
        /\ IF Cardinality(Duplicates) >= 1
           THEN ~result.ok /\ result.warning = "exact_duplicate"
           ELSE IF Cardinality(NearDuplicates) > 2
           THEN ~result.ok /\ result.warning = "too_similar"
           ELSE result.ok /\ result.warning = None

\* the submitter's own row stores the submitted solution and two other users
\* store similar ones: the check passed
C18_Witness ==
    /\ result.op = "check_solution_diversity"
    /\ result.table[1].level_id = result.level
    /\ result.table[1].best_solution = {result.solution}
    /\ Cardinality(NearDuplicates) = 2
    /\ result.ok

\* the warning flags a validation with browser bi adds to session s: one for a
\* changed IP address, then one for a changed user agent, none for a value that
\* matches or that either side lacks
ChangeFlags(s, bi) ==
    (IF s.ip_address # None /\ bi.ip_address # None /\ s.ip_address # bi.ip_address
     THEN << Flag("IP_ADDRESS_CHANGED", "warning") >> ELSE << >>)
    \o
    (IF s.user_agent # None /\ bi.user_agent # None /\ s.user_agent # bi.user_agent
     THEN << Flag("USER_AGENT_CHANGED", "warning") >> ELSE << >>)

\* C19: validate_active_session on an ACTIVE session within its time limit
\* succeeds and leaves it ACTIVE even when the IP address or the user agent
\* differ; each mismatch appends one warning flag and nothing is appended for a
\* value that matches or is absent.
C19_ValidateWarns ==
    [][\A t \in Tokens, bi \in BrowserInputs :
          (/\ validate_active_session(t, bi)
           /\ t \in DOMAIN sessions
           /\ sessions[t].status = "active"
           /\ now - sessions[t].started_at
                 <= sessions[t].max_duration_minutes * TicksPerMinute)
          => /\ result'.ok
             /\ sessions'[t].status = "active"
             /\ sessions'[t].flags = sessions[t].flags \o ChangeFlags(sessions[t], bi)]_vars

\* a validation from another IP address and another user agent succeeded on an
\* ACTIVE session and left both warnings
C19_Witness ==
    \E t \in DOMAIN sessions :
        /\ result.op = "validate" /\ result.ok
        /\ Status(t) = "active"
        /\ sessions[t].flags = << Flag("IP_ADDRESS_CHANGED", "warning"),
                                  Flag("USER_AGENT_CHANGED", "warning") >>

\* C20: flag_session on an existing session appends exactly one flag at the
\* end of its flags whatever the status, leaves the earlier flags as they were
\* and changes the status only for a critical flag on an ACTIVE session, to
\* FLAGGED; with an unknown token it returns false and changes nothing.
C20_FlagAppends ==
    [][\A t \in TokenInputs, sev \in Severities :
          flag_session(t, "TAB_SWITCH", sev)
          => IF t \in DOMAIN sessions
             THEN /\ result'.ok
                  /\ sessions'[t].flags = Append(sessions[t].flags, Flag("TAB_SWITCH", sev))
                  /\ sessions'[t].status =
                        (IF sev = "critical" /\ sessions[t].status = "active"
                         THEN "flagged" ELSE sessions[t].status)
                  /\ \A u \in DOMAIN sessions \ {t} : sessions'[u] = sessions[u]
             ELSE ~result'.ok /\ sessions' = sessions]_vars

\* a critical flag was appended to a COMPLETED session, which stayed COMPLETED
C20_Witness ==
    \E t \in DOMAIN sessions :
        /\ result.op = "flag" /\ result.ok
        /\ Status(t) = "completed"
        /\ Len(sessions[t].flags) >= 1
        /\ sessions[t].flags[Len(sessions[t].flags)] = Flag("TAB_SWITCH", "critical")

----------------------------------------------------------------------------
(* Claims about the session views, the seeds and the proctored submissions *)

\* the sessions whose view the last call returned: all of the user's for
\* my-sessions, the one session there is for the other endpoints
Returned ==
    IF ~result.ok \/ result.op \notin {"create", "verify", "start", "get", "my-sessions"}
    THEN {}
    ELSE IF result.op = "my-sessions"
    THEN {t \in DOMAIN sessions : sessions[t].user_id = result.user}
    ELSE DOMAIN sessions

\* C21: every session view the proctoring API returns (create, verify, start,
\* get by token, my-sessions) for a session that is not PENDING has
\* verification_code hidden.
C21_CodeHidden ==
    \A t \in Returned :
        sessions[t].status # "pending"
            => SessionResponse(result.op, sessions[t]).verification_code = Null

\* get by token returned the view of a session that is past PENDING, and the
\* view of a PENDING session with its code
C21_Witness ==
    /\ result.op = "get" /\ result.ok
    /\ \E t \in Returned :
          /\ sessions[t].status = "completed"
          /\ SessionResponse("get", sessions[t]).verification_code = Null
          /\ SessionResponse("get", [sessions[t] EXCEPT !.status = "pending"]).verification_code
                = Some(Code)

\* the two generators were constructed with the same user, level and rotation,
\* and on the same day if the rotation is daily
SameInputs ==
    /\ \A i \in 1..2 : result.generators[i] # Null
    /\ LET g1 == TheOne(result.generators[1])
           g2 == TheOne(result.generators[2])
       IN  /\ g1.user_id = g2.user_id /\ g1.level_id = g2.level_id
           /\ g1.seed_rotation = g2.seed_rotation
           /\ g1.seed_rotation = "daily" => result.days[1] = result.days[2]

\* C22: two independently constructed generators with the same user, level and
\* rotation static, or daily on the same day, have the same seed and return
\* the same values for the same sequence of random_int, random_choice,
\* random_sample and shuffle calls.
C22_Deterministic ==
    (result.op \in {"construct", "call_generators"} /\ SameInputs)
        => /\ TheOne(result.generators[1]).seed = TheOne(result.generators[2]).seed
           /\ result.values[1] = result.values[2]

\* two static generators constructed on different days have answered the calls
C22_Witness ==
    /\ result.op = "call_generators" /\ SameInputs
    /\ TheOne(result.generators[1]).seed_rotation = "static"
    /\ result.days[1] # result.days[2]
    /\ Len(result.calls) = MaxCalls
    /\ Len(result.values[2]) = MaxCalls

\* the gate lists of exactly n gates that the scorer's table takes from a to b
Solving(a, b, n) == {g \in [1..n -> PuzzleGates] : Replay(a, g) = b}

\* C30: every puzzle generate_gate_puzzle_challenge produces has distinct
\* initial and target states among the four, and its optimal_gate_count is the
\* length of the shortest gate sequence the scorer's table takes from the one
\* to the other, so that a shortest solution is scored in full.
C30_OptimalGates ==
    result.op = "generate_gate_puzzle_challenge" =>
        LET config == TheOne(result.config)
            a == config.initial_state
            b == config.target_state_symbol
            n == config.optimal_gate_count
        IN  /\ a \in Kets /\ b \in Kets /\ a # b
            /\ Solving(a, b, n) # {}
            /\ \A k \in 0..(n - 1) : Solving(a, b, k) = {}
            /\ \A g \in Solving(a, b, n) :
                  _score_gate_puzzle(config, [gates |-> g], config.max_score).score
                     = Min2(config.max_score, 100)

\* a puzzle from |0> to |-> was generated, with two gates as the optimum
C30_Witness ==
    /\ result.op = "generate_gate_puzzle_challenge"
    /\ TheOne(result.config).initial_state = "|0>"
    /\ TheOne(result.config).target_state_symbol = "|->"
    /\ TheOne(result.config).optimal_gate_count = 2

\* C23: in every state a COMPLETED session's integrity_score lies in 0..100 and
\* equals max(0, 100 - 30*critical - 10*warning - 2*info) for the flags the
\* session holds now, those appended after completion included.
C23_ScoreTracksFlags ==
    \A t \in DOMAIN sessions :
        sessions[t].status = "completed" =>
            /\ sessions[t].integrity_score # Null
            /\ TheOne(sessions[t].integrity_score) \in 0..100
            /\ TheOne(sessions[t].integrity_score)
                  = Max2(0, 100 - 30 * CountSeverity(sessions[t].flags, "critical")
                                - 10 * CountSeverity(sessions[t].flags, "warning")
                                - 2 * CountSeverity(sessions[t].flags, "info"))

\* C24: a submission for a level with requires_proctoring is accepted only
\* with the token of a session created for the submitting user and that level.
C24_SessionOwner ==
    [][\A r \in Reqs :
          (submit_commit(r) /\ Level(reqs[r].level).requires_proctoring)
             => /\ reqs[r].token \in DOMAIN sessions
                /\ sessions[reqs[r].token].user_id = reqs[r].user
                /\ sessions[reqs[r].token].level_id = reqs[r].level]_vars

C25_ClientScoreIgnored ==
    [][\A u \in Users, l \in CircuitLevels, sc \in {40, 100}, other \in {40, 100},
          sol \in {Null} \cup {{[circuit |-> {c}]} : c \in Circuits} :
          LET a == Submission(sc, {120}, sol, None, BrowserInfo(None, "uaA", "ipA"))
              b == Submission(other, {120}, sol, None, BrowserInfo(None, "uaA", "ipA"))
              gates == AntiCheatGates(progress, u, Level(l), b)
              rows == ProgressRows(progress, u, l)
              old == IF rows = {} THEN NewProgress(u, Level(l)) ELSE progress[TheOne(rows)]
          IN  complete_level(u, l, a)
                 => /\ result'.ok = (gates.code = None)
                    /\ result'.ok
                          => StoredScore(progress', u, l)
                                = UpdateProgress(old, b, gates.score, now).score]_vars


\* C28: the completed levels of a user in a game are prefix-closed: a user
\* with a completed record for the level of sequence N > 1 has a completed
\* record for the level of sequence N - 1 of that game
C28_PrefixClosed ==
    \A u \in Users, l \in Levels :
        (Level(l).sequence > 1 /\ CompletedLevel(progress, u, l) # {})
           => PreviousCompleted(u, l)

\* a user has completed the second level of a game, after the first
C28_Witness ==
    /\ CompletedLevel(progress, "u1", "A2") # {}
    /\ CompletedLevel(progress, "u1", "A1") # {}
    /\ result = SubmitRet(TRUE, None, "u1", "A2", result.score)


\* C29: total_xp grows by the level's xp_reward exactly once per (user,
\* level): the commit of an accepted submission adds xp_reward to the user's
\* total_xp when it is the one that first leaves a completed record for the
\* pair, adds nothing otherwise, and leaves every other user's total_xp alone,
\* with the requests one after the other or interleaved
C29_XpOnce ==
    [][\A r \in Reqs :
          submit_commit(r) =>
             LET u == reqs[r].user
                 l == reqs[r].level
                 first == /\ CompletedLevel(progress, u, l) = {}
                          /\ CompletedLevel(progress', u, l) # {}
             IN  /\ total_xp'[u] = total_xp[u] + (IF first THEN Level(l).xp_reward ELSE 0)
                 /\ \A v \in Users \ {u} : total_xp'[v] = total_xp[v]]_vars


====
